---- MODULE Spec2Model ----
(***************************************************************************)
(* Telegram Survey Bot: the scheduling engine (ScheduleUtil on top of the  *)
(* APScheduler BackgroundScheduler), the subscribers table (DbHandler),    *)
(* the broadcast callback and the emergency start (EmergencyStart).        *)
(*                                                                         *)
(* Time.  The wall clock `now` counts ticks; SubMinuteTicks ticks make one *)
(* minute.  A datetime is a tick count; the datetimes the program builds   *)
(* with TimeUtil.get_date_time have second 0, i.e. are multiples of        *)
(* SubMinuteTicks.  A date string ("%Y-%m-%d-%H:%M") is a minute count.    *)
(*                                                                         *)
(* Left out: the text of the Telegram messages and the jobs that delete    *)
(* them later (schedule_delete_message, schedule_delete_messages), which   *)
(* get a fresh uuid as id and touch neither the subscribers table nor the  *)
(* broadcast jobs.                                                         *)
(*                                                                         *)
(* Specifications.  Spec is the running bot.  SpecFail is enrollment by    *)
(* wake-up time over a job store that can fail a registration.  SpecConfig *)
(* is the start of main() over config.json files, valid or not.  SpecTime  *)
(* is the generation of a subscriber's timestamps in each mode.  SpecDist  *)
(* is the assignment of end link indices.  SpecCondition is the bot where  *)
(* the participants enter their condition, SpecZone the bot where they     *)
(* report their local time.  SpecRace is the bot whose broadcast callback  *)
(* runs beside the handlers.  SpecRestore is the restart of a study with   *)
(* two end links, SpecShift the bot with a random time shift, SpecLinks    *)
(* the enrollment over config.json files with different end links,         *)
(* SpecConversation the subscribe conversation under each combination of   *)
(* its three flags and SpecWindow the bot with a subscription window       *)
(* inside the clock's range.                                               *)
(***************************************************************************)
EXTENDS Integers, Sequences, FiniteSets, TLC

\* ------------------------------------------------------------------ bounds

\* clock ticks distinguished within one minute
SubMinuteTicks == 2
\* last tick of the wall clock
MaxNow == 6
\* process crashes followed by a restart
MaxCrashes == 1
\* runs of the emergency start
MaxRecoveries == 2
\* executions of the broadcast callback counted per job id
MaxExecuted == 2
\* end survey reminders scheduled
MaxReminders == 1
\* registrations the job store fails
MaxFailures == 1
\* length of the longest list of surveys of one subscriber
MaxSurveys == 1
\* length of the longest list of END datetimes given an index
MaxEndList == 3
\* rows of table offsets
MaxOffsets == 2

\* ------------------------------------------------------------- vocabulary

Chats == {1, 2}
DAILY == "DAILY"
END == "END"
SurveyType == {DAILY, END}
NoRun == 0 - 1
\* the keys the operator answers with; readchar() is read again until it is one
\* of them
KEY_Y == "y"
KEY_N == "n"
Keys == {KEY_Y, KEY_N}

\* the wakeup times (minute of the day) a participant may answer with
WakeupTimes == {0}

\* --------------------------------------------------------- configuration
\* config.json as loaded into Config; times of day and delays are minutes,
\* dates are the datetime of the day's midnight.

BaseConfig ==
    [ subscription_start_date |-> 0,
      subscription_deadline |-> MaxNow,
      daily_dates |-> <<0>>,
      daily_times |-> << <<1>> >>,
      end_dates |-> <<0>>,
      end_times |-> << <<2>> >>,
      useTimeZoneCalculation |-> FALSE,
      useDayCalculation |-> FALSE,
      useTimeCalculation |-> FALSE,
      daily_DelayMinutesAfterWakeup |-> 1,
      daily_SurveysPerDay |-> 1,
      daily_DelayMinutesBetweenSurveys |-> 1,
      end_DelayMinutesAfterWakeup |-> 2,
      end_SurveysPerDay |-> 1,
      end_DelayMinutesBetweenSurveys |-> 1,
      daily_RandomTimeShiftMinutes |-> 1,
      end_RandomTimeShiftMinutes |-> 1,
      endSurveyReminderEnabled |-> FALSE,
      endSurveyReminderDelayHours |-> 1,
      participantsEnterCondition |-> FALSE,
      start_url_count |-> 1,
      end_url_count |-> 1,
      end_url_distribution |-> "NONE" ]

\* The configurations explored: calendar scheduling with and without the end
\* survey reminder, and scheduling calculated from the wake-up time.
Configs ==
    { BaseConfig,
      [BaseConfig EXCEPT !.endSurveyReminderEnabled = TRUE],
      [BaseConfig EXCEPT !.useTimeCalculation = TRUE] }

VARIABLES
    config,       \* the Config instance of config_handler
    now,          \* datetime.now(), in ticks
    phase,        \* how far main() has come: "load", "init", "scheduled", "polling",
                  \* "started"; "failed" when scheduler.start() raised; "exit" and
                  \* "died" when the configuration ended the process
    scheduler,    \* the BackgroundScheduler: state, _pending_jobs, the job store
    store,        \* table subscribers, in insertion order
    conversation, \* ConversationHandler state per chat
    handler,      \* the update handler in progress on the dispatcher thread
    callback,     \* the job callback in progress on the scheduler's pool
    executed,     \* job id -> number of runs of send_notification_broadcast
    crashes,      \* crashes so far
    recoveries,   \* runs of EmergencyStart.progress so far
    emergency,    \* the last EmergencyStart of this process lifetime: whether one
                  \* ran, the operator's answers, whether ConflictingIdError ended it
    reminders,    \* end survey reminders scheduled so far
    failures,     \* registrations the job store has failed so far
    generated,    \* the call under examination: its arguments and result
    offsets       \* table offsets, in insertion order

vars == <<config, now, phase, scheduler, store, conversation, handler, callback,
          executed, crashes, recoveries, emergency, reminders, failures, generated,
          offsets>>

\* ------------------------------------------------------------ conversions

\* date.strftime("%Y-%m-%d-%H:%M"): the seconds are dropped
Format(dt) == dt \div SubMinuteTicks

\* datetime.strptime(date_str, "%Y-%m-%d-%H:%M"): second 0 of the minute
Parse(date_str) == date_str * SubMinuteTicks

\* timedelta(minutes=m), timedelta(hours=h) in ticks (hours are scaled to one minute)
Minutes(m) == m * SubMinuteTicks
Hours(h) == h * SubMinuteTicks

\* FIVE_MINUTES_SECONDS, with five minutes scaled to one
FIVE_MINUTES_SECONDS == Minutes(1)

\* all date strings the clock horizon can produce
DateStrs == 0 .. (Format(MaxNow) + 4)
JobIds == DateStrs \X SurveyType

Range(s) == { s[i] : i \in DOMAIN s }

RECURSIVE Flatten(_)
Flatten(ss) == IF ss = <<>> THEN <<>> ELSE Head(ss) \o Flatten(Tail(ss))

\* ---------------------------------------------------------------- TimeUtil

\* minutes of one calendar day and days of one month of the model's calendar
MinutesPerDay == 8
DaysPerMonth == 3

TicksPerDay == MinutesPerDay * SubMinuteTicks

\* datetime.day: the day of the month
DayOfMonth(dt) == ((dt \div TicksPerDay) % DaysPerMonth) + 1

\* TimeUtil.get_time_offset (named apart from DbHandler.get_time_offset): the
\* participant's datetime against now without its seconds; timedelta.seconds leaves
\* out the days; a difference of up to five minutes counts as none
TimeUtil_get_time_offset(t, participant_datetime) ==
    LET datetime_now == Parse(Format(t))
        timedelta_seconds ==
            IF datetime_now < participant_datetime
            THEN (participant_datetime - datetime_now) % TicksPerDay
            ELSE 0 - ((datetime_now - participant_datetime) % TicksPerDay)
    IN  IF (0 - FIVE_MINUTES_SECONDS) <= timedelta_seconds
           /\ timedelta_seconds <= FIVE_MINUTES_SECONDS
        THEN 0 ELSE timedelta_seconds

\* TimeUtil.get_date_time: year, month and day of `date`, hour and minute of `time`
get_date_time(date, time) == (date - (date % TicksPerDay)) + Minutes(time)

\* TimeUtil.apply_time_offset; the offset is in seconds, a whole number of minutes
apply_time_offset(date_time, offset) == date_time + Minutes(offset)

\* TimeUtil.get_date_time_in(hours=..)
get_date_time_in(start_time, hours) == start_time + Hours(hours)

\* generate_date_time_list with every time list combined with every date
generate_date_time_list_crossed(dates, times, offset) ==
    Flatten([ i \in DOMAIN dates |->
                Flatten([ j \in DOMAIN times |->
                    [ k \in DOMAIN times[j] |-> get_date_time(dates[i], times[j][k]) ] ]) ])

\* TimeUtil.generate_date_time_list, times given as a list of time lists
generate_date_time_list(dates, times, offset) ==
    LET dt_list == Flatten([ i \in DOMAIN dates |->
                        [ k \in DOMAIN times[i] |-> get_date_time(dates[i], times[i][k]) ] ])
    IN  IF offset # 0
        THEN [ i \in DOMAIN dt_list |-> apply_time_offset(dt_list[i], offset) ]
        ELSE dt_list

\* TimeUtil.add_dates: survey_count datetimes after the wakeup time of `date`
RECURSIVE add_dates_from(_, _, _, _)
add_dates_from(date, i, survey_count, time_settings) ==
    IF i >= survey_count THEN <<>>
    ELSE LET next == IF i = 0
                     THEN date + Minutes(time_settings.delay_minutes_after_wakeup)
                     ELSE date + Minutes(time_settings.delay_minutes_between_surveys)
         IN  <<next>> \o add_dates_from(next, i + 1, survey_count, time_settings)

\* add_dates with the delay between surveys used from the first survey on
add_dates_evenly(date, time_settings) ==
    add_dates_from(get_date_time(date, time_settings.wakeup_time), 1,
                   time_settings.survey_count + 1, time_settings)

add_dates(date, time_settings) ==
    add_dates_from(get_date_time(date, time_settings.wakeup_time), 0,
                   time_settings.survey_count, time_settings)

\* TimeUtil.generate_date_list_for_subscriber
generate_date_list_for_subscriber(day_list, time_settings) ==
    Flatten([ i \in DOMAIN day_list |-> add_dates(day_list[i], time_settings) ])

TimeSettings(wakeup_time, delay_after, survey_count, delay_between) ==
    [ wakeup_time |-> wakeup_time,
      delay_minutes_after_wakeup |-> delay_after,
      survey_count |-> survey_count,
      delay_minutes_between_surveys |-> delay_between ]

\* timedelta(days=d)
Days(d) == d * TicksPerDay

\* TimeUtil.generate_date_list: today + timedelta(days=day_delta) for each entry
generate_date_list(today, day_list) ==
    [ i \in DOMAIN day_list |-> today + Days(day_list[i]) ]

\* TimeUtil.generate_date_list_for_subscriber_day_calc, time_settings a list of
\* time lists: the loop runs over the time lists and indexes day_list with them
generate_date_list_for_subscriber_day_calc(today, day_list, time_settings) ==
    Flatten([ i \in DOMAIN time_settings |->
                [ k \in DOMAIN time_settings[i] |->
                    get_date_time(today + Days(day_list[i]), time_settings[i][k]) ] ])

\* TimeUtil.generate_date_list_for_subscriber_day_calc, time_settings a TimeSettings
generate_date_list_for_subscriber_day_calc_wakeup(today, day_list, time_settings) ==
    Flatten([ i \in DOMAIN day_list |->
                add_dates(today + Days(day_list[i]), time_settings) ])

\* ------------------------------------------------- the job backend (APScheduler)

SEND_BROADCAST == "send_notification_broadcast"
SEND_REMINDER == "send_end_survey_reminder"

\* the id from the day alone: date.strftime("%Y-%m-%d") + survey_type.name
JobIdOfDay(date, survey_type) == <<Format(date) \div MinutesPerDay, survey_type>>

\* the id of a broadcast job: date.strftime("%Y-%m-%d-%H:%M") + survey_type.name
JobId(date, survey_type) == <<Format(date), survey_type>>

\* the id the scheduler makes up for a job added without one (uuid4)
AutoId(n) == <<0 - n, "AUTO">>

\* the jobs scheduler.get_jobs() lists: pending ones before start(), stored ones after
LiveJobs(S) == IF S.state = "stopped" THEN S.pending ELSE S.jobs

\* number of live jobs with this id
CountJobs(S, id) ==
    IF S.state = "stopped"
    THEN Cardinality({ i \in DOMAIN S.pending : S.pending[i].id = id })
    ELSE Cardinality({ j \in S.jobs : j.id = id })

\* scheduler.get_job(job_id): None when there is no such job
get_job(S, id) == CountJobs(S, id) > 0

\* CronTrigger(year.., minute, jitter).get_next_fire_time(None, now) before the
\* jitter: the one matching minute, unless it is over
CronNextFireTime(date, t) ==
    LET fire == Parse(Format(date))
    IN  IF fire < t THEN NoRun ELSE fire

\* The fire time of a job at the moment the store takes it.  The trigger moves it
\* by a draw from [-jitter, jitter] unless the result is in the past; the draw is
\* resolved when the job runs (JitterWindow), so the job keeps the unmoved time.
NextRunTime(job, t) ==
    IF job.func = SEND_BROADCAST
    THEN CronNextFireTime(job.date, t)
    ELSE job.date

\* the instants at which a stored job may run: its fire time moved by the jitter
JitterWindow(job) ==
    IF job.next_run_time = NoRun THEN {}
    ELSE (job.next_run_time - job.jitter) .. (job.next_run_time + job.jitter)

\* BaseScheduler._real_add_job: ConflictingIdError when the store has the id
real_add_job(S, job, t) ==
    IF \E j \in S.jobs : j.id = job.id
    THEN [sched |-> S, raised |-> TRUE]
    ELSE [sched |-> [S EXCEPT !.jobs = @ \cup
                        {[job EXCEPT !.next_run_time = NextRunTime(job, t)]}],
          raised |-> FALSE]

\* BaseScheduler.add_job: tentative while the scheduler is not started
scheduler_add_job(S, job, t) ==
    IF S.state = "stopped"
    THEN [sched |-> [S EXCEPT !.pending = Append(@, job)], raised |-> FALSE]
    ELSE real_add_job(S, job, t)

\* BaseScheduler.start: the pending jobs go to the store one by one
RECURSIVE start_pending(_, _, _)
start_pending(S, i, t) ==
    IF i > Len(S.pending) THEN [sched |-> S, raised |-> FALSE]
    ELSE LET r == real_add_job(S, S.pending[i], t)
         IN  IF r.raised THEN r ELSE start_pending(r.sched, i + 1, t)

\* BaseScheduler._process_jobs after it has handed a due job to the executor: the
\* trigger is asked for the next fire time after this run; a job without one is
\* removed from the store, a job with one stays (a cron job that ran before its
\* minute because of the jitter still has that minute ahead)
process_job(S, job, t) ==
    IF job.func = SEND_BROADCAST /\ t < CronNextFireTime(job.date, t)
    THEN S
    ELSE [S EXCEPT !.jobs = @ \ {job}]

\* the executor takes every run
max_instances_unlimited(cb, job) == FALSE

\* BaseExecutor.submit_job: MaxInstancesReachedError while an instance of the job
\* is running; no job is added with max_instances, so the limit is the default 1
max_instances_reached(cb, job) == cb.pc # "idle" /\ cb.job_id = job.id

\* the run of a job the executor has taken is counted on the job (field runs: the
\* runs of this registration so far), should the store still hold it
count_run(S, job) ==
    [S EXCEPT !.jobs = { IF j = job THEN [j EXCEPT !.runs = @ + 1] ELSE j : j \in @ }]

\* scheduler.remove_job(job_id): the jobs without that id
scheduler_remove_job(S, id) ==
    IF S.state = "stopped"
    THEN [S EXCEPT !.pending = SelectSeq(@, LAMBDA j : j.id # id)]
    ELSE [S EXCEPT !.jobs = { j \in @ : j.id # id }]

\* remove_job_from_scheduler with the JobLookupError let through to the caller
remove_job_from_scheduler_uncaught(S, id) ==
    [sched |-> scheduler_remove_job(S, id), raised |-> ~get_job(S, id), logged |-> FALSE]

\* remove_job_from_scheduler: scheduler.remove_job(job_id); the JobLookupError of a
\* job the scheduler no longer holds is caught and logged
remove_job_from_scheduler(S, id) ==
    [sched |-> scheduler_remove_job(S, id), raised |-> FALSE, logged |-> ~get_job(S, id)]

\* ------------------------------------------------------------ ScheduleUtil

\* the jitter with the settings of the two survey types exchanged
JitterOfOtherType(survey_type) ==
    IF survey_type = DAILY THEN config.end_RandomTimeShiftMinutes
    ELSE config.daily_RandomTimeShiftMinutes

\* the jitter ScheduleUtil.add_job hands to the CronTrigger
JitterOf(survey_type) ==
    IF survey_type = DAILY THEN config.daily_RandomTimeShiftMinutes
    ELSE config.end_RandomTimeShiftMinutes

BroadcastJob(date, survey_type) ==
    [ id |-> JobId(date, survey_type),
      func |-> SEND_BROADCAST,
      survey_type |-> survey_type,
      date_str |-> Format(date),
      date |-> date,
      jitter |-> JitterOf(survey_type),
      next_run_time |-> NoRun,
      runs |-> 0,
      chat_ids |-> <<>> ]

\* ScheduleUtil.add_job
add_job(S, date, survey_type, t) ==
    scheduler_add_job(S, BroadcastJob(date, survey_type), t)

\* ScheduleUtil.add_jobs_from_list: one job per datetime unless the id is known
RECURSIVE add_jobs_from(_, _, _, _, _)
add_jobs_from(S, datetime_list, i, survey_type, t) ==
    IF i > Len(datetime_list) THEN S
    ELSE LET date == datetime_list[i]
             S1 == IF ~get_job(S, JobId(date, survey_type))
                   THEN add_job(S, date, survey_type, t).sched
                   ELSE S
         IN  add_jobs_from(S1, datetime_list, i + 1, survey_type, t)

\* add_jobs_from_list without the get_job lookup: every datetime gets a job
RECURSIVE add_jobs_unchecked_from(_, _, _, _, _)
add_jobs_unchecked_from(S, datetime_list, i, survey_type, t) ==
    IF i > Len(datetime_list) THEN S
    ELSE add_jobs_unchecked_from(add_job(S, datetime_list[i], survey_type, t).sched,
                                 datetime_list, i + 1, survey_type, t)

add_jobs_from_list_unchecked(S, datetime_list, survey_type, t) ==
    add_jobs_unchecked_from(S, datetime_list, 1, survey_type, t)

add_jobs_from_list(S, datetime_list, survey_type, t) ==
    add_jobs_from(S, datetime_list, 1, survey_type, t)

\* ScheduleUtil.calculate_end_distribution reads end_list[0].day before it looks at
\* the strategy: an empty list raises IndexError whatever the strategy
calculate_end_distribution_raised(end_list) ==
    IF end_list = <<>> THEN "IndexError" ELSE ""

\* ScheduleUtil.calculate_end_distribution where it returns; draws[i] is the i-th
\* randint result
RECURSIVE end_distribution_from(_, _, _, _, _)
end_distribution_from(end_list, i, last_day, count, strategy) ==
    IF i > Len(end_list) THEN <<>>
    ELSE LET changed == last_day # DayOfMonth(end_list[i])
             here == IF strategy = "DAY" THEN (IF changed THEN count + 1 ELSE count)
                     ELSE (IF changed THEN 0 ELSE count)
             after == IF strategy = "DAY" THEN here ELSE here + 1
         IN  <<here>> \o end_distribution_from(end_list, i + 1, DayOfMonth(end_list[i]),
                                               after, strategy)

calculate_end_distribution(end_list, draws) ==
    LET strategy == config.end_url_distribution
    IN  IF strategy = "NONE" THEN [ i \in DOMAIN end_list |-> 0 ]
        ELSE IF strategy \in {"DAY", "TIME"}
             THEN end_distribution_from(end_list, 1, DayOfMonth(end_list[1]), 0, strategy)
        ELSE IF strategy = "MIXED" THEN [ i \in DOMAIN end_list |-> i - 1 ]
        ELSE [ i \in DOMAIN end_list |-> draws[i] ]

\* --------------------------------------------------------------- DbHandler

Row(chat_id, date_str, survey_type, condition, end_index) ==
    [ chat_id |-> chat_id, date |-> date_str, type |-> survey_type,
      condition |-> condition, end_index |-> end_index ]

\* DbHandler.insert_new_subscriber_entries; end_distribution_list <<>> stands for None
insert_new_subscriber_entries(T, chat_id, date_list, survey_type, condition, end_distribution_list) ==
    T \o [ i \in DOMAIN date_list |->
             Row(chat_id, Format(date_list[i]), survey_type, condition,
                 IF survey_type = END /\ end_distribution_list # <<>>
                 THEN end_distribution_list[i] ELSE -1) ]

\* DbHandler.insert_end_reminder_entries_from_list
insert_end_reminder_entries_from_list(T, survey_type, subscriber_information, date_str) ==
    T \o [ i \in DOMAIN subscriber_information |->
             Row(subscriber_information[i][1], date_str, survey_type,
                 subscriber_information[i][2], subscriber_information[i][3]) ]

\* DbHandler.update_subscriber_condition: UPDATE subscribers SET condition=? WHERE
\* chat_id=?
update_subscriber_condition(T, chat_id, condition) ==
    [ i \in DOMAIN T |-> IF T[i].chat_id = chat_id
                         THEN [T[i] EXCEPT !.condition = condition] ELSE T[i] ]

\* a lookup that finds no chat subscribed
is_never_subscribed(T, chat_id) == FALSE

\* DbHandler.is_already_subscribed
is_already_subscribed(T, chat_id) == \E i \in DOMAIN T : T[i].chat_id = chat_id

\* DbHandler.query_subscribers_by_date_type: (chat id, condition, end index)
\* the query without its WHERE clause: every row of the table
query_subscribers_any_date_type(T, date_str, type_str) ==
    [ i \in DOMAIN T |-> <<T[i].chat_id, T[i].condition, T[i].end_index>> ]

query_subscribers_by_date_type(T, date_str, type_str) ==
    LET rows == SelectSeq(T, LAMBDA r : r.date = date_str /\ r.type = type_str)
    IN  [ i \in DOMAIN rows |-> <<rows[i].chat_id, rows[i].condition, rows[i].end_index>> ]

\* The loop of send_notification_broadcast over the recipients: one sendMessage
\* each; it raises Unauthorized for a chat that has blocked the bot, which the
\* loop catches.  The result lists the attempts in order.
RECURSIVE send_from(_, _, _)
send_from(subscriber_information, i, blocked) ==
    IF i > Len(subscriber_information) THEN <<>>
    ELSE LET chat_id == subscriber_information[i][1]
         IN  <<[chat_id |-> chat_id, sent |-> chat_id \notin blocked]>>
             \o send_from(subscriber_information, i + 1, blocked)

\* the loop with the try around it instead of inside it: Unauthorized ends it
RECURSIVE send_until_unauthorized_from(_, _, _)
send_until_unauthorized_from(subscriber_information, i, blocked) ==
    IF i > Len(subscriber_information) THEN <<>>
    ELSE LET chat_id == subscriber_information[i][1]
         IN  IF chat_id \in blocked
             THEN <<[chat_id |-> chat_id, sent |-> FALSE]>>
             ELSE <<[chat_id |-> chat_id, sent |-> TRUE]>>
                  \o send_until_unauthorized_from(subscriber_information, i + 1, blocked)

send_until_unauthorized(subscriber_information, blocked) ==
    send_until_unauthorized_from(subscriber_information, 1, blocked)

send_surveys(subscriber_information, blocked) ==
    send_from(subscriber_information, 1, blocked)

\* the statement SELECT_SUBSCRIBER_EMERGENCY: date and type of the stored rows
SELECT_SUBSCRIBER_EMERGENCY(T) == [ i \in DOMAIN T |-> <<T[i].date, T[i].type>> ]

\* the statement DELETE_ALL_SUBSCRIBERS
DELETE_ALL_SUBSCRIBERS(T) == <<>>

\* the statement DELETE_SUBSCRIBER_CHAT_ID
DELETE_SUBSCRIBER_CHAT_ID(T, chat_id) == SelectSeq(T, LAMBDA r : r.chat_id # chat_id)

\* DbHandler.query_subscribers_emergency_start: (datetime, SurveyType)
query_subscribers_emergency_start(T) ==
    LET rows == SELECT_SUBSCRIBER_EMERGENCY(T)
    IN  [ i \in DOMAIN rows |-> <<Parse(rows[i][1]), rows[i][2]>> ]

\* a cleanup that deletes the rows of the future occurrences only
delete_future_subscribers(T) == SelectSeq(T, LAMBDA r : Parse(r.date) <= now)

\* DbHandler.delete_all_subscribers
delete_all_subscribers(T) == DELETE_ALL_SUBSCRIBERS(T)

\* DbHandler.insert_time_offset: INSERT INTO offsets VALUES(?, ?)
insert_time_offset(O, chat_id, offset) ==
    Append(O, [chat_id |-> chat_id, offset |-> offset])

\* DbHandler.get_time_offset: the first row SELECT_OFFSET gives, 0 without one
get_time_offset(O, chat_id) ==
    LET rows == SelectSeq(O, LAMBDA r : r.chat_id = chat_id)
    IN  IF rows = <<>> THEN 0 ELSE rows[1].offset

\* a removal that deletes the chat's DAILY rows only
remove_subscriber_daily(T, chat_id) ==
    SelectSeq(T, LAMBDA r : r.chat_id # chat_id \/ r.type # DAILY)

\* DbHandler.remove_subscriber: the rows of table subscribers (and the message ids);
\* table offsets is not touched
remove_subscriber(T, chat_id) == DELETE_SUBSCRIBER_CHAT_ID(T, chat_id)

\* ---------------------------------------------------------- EmergencyStart

\* list(dict.fromkeys(l)): the first occurrence of each element, in order
RECURSIVE FromKeys(_)
FromKeys(l) ==
    IF l = <<>> THEN <<>>
    ELSE LET init == FromKeys(SubSeq(l, 1, Len(l) - 1))
             last == l[Len(l)]
         IN  IF last \in Range(init) THEN init ELSE Append(init, last)

\* get_future_survey_dates with the occurrence of the present instant kept
get_future_survey_dates_inclusive(T, datetime_now) ==
    SelectSeq(query_subscribers_emergency_start(T), LAMBDA e : datetime_now <= e[1])

\* EmergencyStart.get_future_survey_dates; destruct_tuple hands the two components
\* of each (datetime, SurveyType) pair to the lambda, e[1] being the datetime
get_future_survey_dates(T, datetime_now) ==
    SelectSeq(query_subscribers_emergency_start(T), LAMBDA e : datetime_now < e[1])

\* EmergencyStart.restore_scheduler_entries: add_job for each pair, up to an error
RECURSIVE restore_from(_, _, _, _)
restore_from(S, future_dates, i, t) ==
    IF i > Len(future_dates) THEN [sched |-> S, raised |-> FALSE]
    ELSE LET r == add_job(S, future_dates[i][1], future_dates[i][2], t)
         IN  IF r.raised THEN r ELSE restore_from(r.sched, future_dates, i + 1, t)

restore_scheduler_entries(S, future_dates, t) ==
    restore_from(S, future_dates, 1, t)

\* an emergency start that assigned the end links of the rows anew
progress_redistributing(S, T, start_key, cleanup_key, t) ==
    LET future_dates == FromKeys(get_future_survey_dates(T, t))
        r == restore_scheduler_entries(S, future_dates, t)
    IN  [sched |-> r.sched, raised |-> r.raised, answers |-> <<start_key>>,
         table |-> [ i \in DOMAIN T |->
                       IF T[i].type = END
                       THEN [T[i] EXCEPT !.end_index = (@ + 1) % config.end_url_count]
                       ELSE T[i] ]]

\* EmergencyStart.progress: the scheduler and the table it ends with, whether it
\* ended in ConflictingIdError, and the answers the operator was asked for;
\* start_key and cleanup_key are what the operator types at the two prompts
progress(S, T, start_key, cleanup_key, t) ==
    LET future_dates == FromKeys(get_future_survey_dates(T, t))
    IN  IF future_dates # <<>>
        THEN IF start_key = KEY_Y
             THEN LET r == restore_scheduler_entries(S, future_dates, t)
                  IN  [sched |-> r.sched, table |-> T, raised |-> r.raised,
                       answers |-> <<start_key>>]
             ELSE IF cleanup_key = KEY_Y
                  THEN [sched |-> S, table |-> delete_all_subscribers(T),
                        raised |-> FALSE, answers |-> <<start_key, cleanup_key>>]
                  ELSE [sched |-> S, table |-> T, raised |-> FALSE,
                        answers |-> <<start_key, cleanup_key>>]
        ELSE [sched |-> S, table |-> T, raised |-> FALSE, answers |-> <<>>]

\* ------------------------------------------------------------------ state

Idle == [pc |-> "idle"]
EmptyScheduler == [state |-> "stopped", pending |-> <<>>, jobs |-> {}]
\* no TimeUtil call is under examination
NoCall == [ call |-> "none" ]

NoEmergency == [ran |-> FALSE, answers |-> <<>>, raised |-> FALSE]
UpdaterRunning == phase \in {"polling", "started", "failed"}

\* an END broadcast goes on to schedule the end survey reminder
WantsReminder(survey_type) == survey_type = END /\ config.endSurveyReminderEnabled

\* send_notification_broadcast has sent and has nothing left to do but return.  The
\* return touches nothing the other threads read, so it is taken at once: the steps
\* of the handlers are not interleaved with it.
Returning == callback.pc = "sent" /\ ~WantsReminder(callback.survey_type)

\* the job may run now; the job must have run by now
MayRun(job) == now \in JitterWindow(job)
Overdue(job) == job.next_run_time # NoRun /\ job.next_run_time + job.jitter <= now

Init ==
    /\ config \in Configs
    /\ now = 0
    /\ phase = "init"
    /\ scheduler = EmptyScheduler
    /\ store = <<>>
    /\ conversation = [ c \in Chats |-> "END" ]
    /\ handler = Idle
    /\ callback = Idle
    /\ executed = [ id \in JobIds |-> 0 ]
    /\ crashes = 0
    /\ recoveries = 0
    /\ emergency = NoEmergency
    /\ reminders = 0
    /\ failures = 0
    /\ generated = NoCall
    /\ offsets = <<>>

\* ------------------------------------------------------------------ main()

\* ScheduleUtil.schedule_surveys: the jobs of the configured dates
schedule_surveys(S, survey_type, t) ==
    LET time_list == IF survey_type = DAILY THEN config.daily_times ELSE config.end_times
        day_list == IF survey_type = DAILY THEN config.daily_dates ELSE config.end_dates
        datetime_list == generate_date_time_list(day_list, time_list, 0)
    IN  IF ~config.useDayCalculation /\ ~config.useTimeCalculation
        THEN add_jobs_from_list(S, datetime_list, survey_type, t)
        ELSE S

\* schedule_notifications(), called by main() before the scheduler is started
ScheduleNotifications ==
    /\ phase = "init"
    /\ scheduler' = schedule_surveys(schedule_surveys(scheduler, DAILY, now), END, now)
    /\ phase' = "scheduled"
    /\ UNCHANGED <<config, now, store, conversation, handler, callback, executed, crashes,
                   recoveries, emergency, reminders, failures, generated, offsets>>

\* start_polling(): updater.start_polling()
UpdaterStartPolling ==
    /\ phase = "scheduled"
    /\ phase' = "polling"
    /\ UNCHANGED <<config, now, scheduler, store, conversation, handler, callback,
                   executed, crashes, recoveries, emergency, reminders, failures,
                   generated, offsets>>

\* start_polling(): scheduler.start(); a ConflictingIdError leaves it stopped
SchedulerStart ==
    /\ phase = "polling"
    /\ LET r == start_pending(scheduler, 1, now)
       IN  IF r.raised
           THEN /\ scheduler' = r.sched
                /\ phase' = "failed"
           ELSE /\ scheduler' = [r.sched EXCEPT !.state = "running", !.pending = <<>>]
                /\ phase' = "started"
    /\ UNCHANGED <<config, now, store, conversation, handler, callback, executed, crashes,
                   recoveries, emergency, reminders, failures, generated, offsets>>

\* --------------------------------------------------------- update handlers

\* ConfigHandler.get_condition: randint(0, len(start_url) - 1)
Conditions == 0 .. (config.start_url_count - 1)

\* randint with the length itself as upper bound
DrawsInclusive(n) == [1 .. n -> 0 .. config.end_url_count]

\* the randint results calculate_end_distribution may draw for n datetimes:
\* randint(0, len(end_url[0]) - 1) each
Draws(n) == [1 .. n -> 0 .. (config.end_url_count - 1)]

\* ScheduleUtil.add_subscriber without day calculation: the rows of both survey types
add_subscriber(T, chat_id, condition, draws) ==
    LET daily_list == generate_date_time_list(config.daily_dates, config.daily_times, 0)
        end_list == generate_date_time_list(config.end_dates, config.end_times, 0)
        T1 == insert_new_subscriber_entries(T, chat_id, daily_list, DAILY, condition, <<>>)
    IN  insert_new_subscriber_entries(T1, chat_id, end_list, END, condition,
                                      calculate_end_distribution(end_list, draws))

\* subscribe(): /subscribe outside a conversation
Subscribe(c) ==
    /\ ~Returning
    /\ UpdaterRunning
    /\ handler = Idle
    /\ conversation[c] = "END"
    /\ IF \/ now < config.subscription_start_date
          \/ now > config.subscription_deadline
          \/ is_already_subscribed(store, c)
       THEN UNCHANGED <<store, conversation>>
       ELSE IF config.useTimeZoneCalculation
            THEN /\ conversation' = [conversation EXCEPT ![c] = "TIMEZONE_STATE"]
                 /\ UNCHANGED store
            ELSE IF config.useTimeCalculation
            THEN /\ conversation' = [conversation EXCEPT ![c] = "TIME_STATE"]
                 /\ UNCHANGED store
            ELSE IF config.participantsEnterCondition
            THEN /\ conversation' = [conversation EXCEPT ![c] = "CONDITION_STATE"]
                 /\ UNCHANGED store
            ELSE /\ \E condition \in Conditions :
                    \E draws \in Draws(Len(Flatten(config.end_times))) :
                        store' = add_subscriber(store, c, condition, draws)
                 /\ UNCHANGED conversation
    /\ UNCHANGED <<config, now, phase, scheduler, handler, callback, executed, crashes,
                   recoveries, emergency, reminders, failures, generated, offsets>>

\* subscribe_wakeup_time() up to the first commit of add_subscriber_time_calculated:
\* the datetime lists are computed and the DAILY rows are inserted.  Where
\* calculate_end_distribution raises, nothing has been inserted; the exception leaves
\* the handler and the dispatcher logs it, the conversation stays where it was.
SubscribeWakeupTime(c, wakeup_time) ==
    /\ ~Returning
    /\ UpdaterRunning
    /\ handler = Idle
    /\ conversation[c] = "TIME_STATE"
    /\ \E condition \in Conditions :
         LET daily_settings == TimeSettings(wakeup_time,
                                            config.daily_DelayMinutesAfterWakeup,
                                            config.daily_SurveysPerDay,
                                            config.daily_DelayMinutesBetweenSurveys)
             end_settings == TimeSettings(wakeup_time,
                                          config.end_DelayMinutesAfterWakeup,
                                          config.end_SurveysPerDay,
                                          config.end_DelayMinutesBetweenSurveys)
             daily_list == generate_date_list_for_subscriber(config.daily_dates, daily_settings)
             end_list == generate_date_list_for_subscriber(config.end_dates, end_settings)
         IN  IF calculate_end_distribution_raised(end_list) # ""
             THEN /\ handler' = [ pc |-> "error", chat_id |-> c,
                                  raised |-> calculate_end_distribution_raised(end_list) ]
                  /\ UNCHANGED store
             ELSE \E draws \in Draws(Len(end_list)) :
               /\ store' = insert_new_subscriber_entries(store, c, daily_list, DAILY,
                                                         condition, <<>>)
               /\ handler' = [ pc |-> "insert_end", chat_id |-> c, condition |-> condition,
                               daily_list |-> daily_list, end_list |-> end_list,
                               end_distribution_list |->
                                   calculate_end_distribution(end_list, draws) ]
    /\ UNCHANGED <<config, now, phase, scheduler, conversation, callback, executed,
                   crashes, recoveries, emergency, reminders, failures, generated,
                   offsets>>

\* add_subscriber_time_calculated: the END rows are inserted
EnrollInsertEnd ==
    /\ ~Returning
    /\ handler.pc = "insert_end"
    /\ store' = insert_new_subscriber_entries(store, handler.chat_id, handler.end_list, END,
                                              handler.condition,
                                              handler.end_distribution_list)
    /\ handler' = [handler EXCEPT !.pc = "jobs_daily"]
    /\ UNCHANGED <<config, now, phase, scheduler, conversation, callback, executed,
                   crashes, recoveries, emergency, reminders, failures, generated,
                   offsets>>

\* add_subscriber_time_calculated: add_jobs_from_list(daily_list, .., DAILY)
EnrollJobsDaily ==
    /\ ~Returning
    /\ handler.pc = "jobs_daily"
    /\ scheduler' = add_jobs_from_list(scheduler, handler.daily_list, DAILY, now)
    /\ handler' = [handler EXCEPT !.pc = "jobs_end"]
    /\ UNCHANGED <<config, now, phase, store, conversation, callback, executed, crashes,
                   recoveries, emergency, reminders, failures, generated, offsets>>

\* add_subscriber_time_calculated: add_jobs_from_list(end_list, .., END), then the
\* handler sends the subscribe message and ends the conversation, or asks for the
\* condition
EnrollJobsEnd ==
    /\ ~Returning
    /\ handler.pc = "jobs_end"
    /\ scheduler' = add_jobs_from_list(scheduler, handler.end_list, END, now)
    /\ conversation' = [conversation EXCEPT ![handler.chat_id] =
                            IF config.participantsEnterCondition THEN "CONDITION_STATE"
                            ELSE "END"]
    /\ handler' = Idle
    /\ UNCHANGED <<config, now, phase, store, callback, executed, crashes, recoveries,
                   emergency, reminders, failures, generated, offsets>>

\* add_subscriber_time_calculated where scheduler.add_job raises for the k-th date
\* of the list (the job store cannot take the job): the jobs before it are
\* registered, the exception leaves add_jobs_from_list, add_subscriber_time_calculated
\* and subscribe_wakeup_time; the dispatcher hands it to error(), which logs it.
\* The handler has not returned a state, so the conversation stays where it was.
\* A scheduler that has not started keeps the job in a list and asks no job store.
EnrollJobsRaise(k) ==
    /\ ~Returning
    /\ failures < MaxFailures
    /\ scheduler.state = "running"
    /\ handler.pc \in {"jobs_daily", "jobs_end"}
    /\ LET survey_type == IF handler.pc = "jobs_daily" THEN DAILY ELSE END
           datetime_list == IF handler.pc = "jobs_daily" THEN handler.daily_list
                            ELSE handler.end_list
       IN  /\ k \in DOMAIN datetime_list
           /\ LET S == add_jobs_from_list(scheduler, SubSeq(datetime_list, 1, k - 1),
                                          survey_type, now)
              IN  /\ ~get_job(S, JobId(datetime_list[k], survey_type))
                  /\ scheduler' = S
    /\ handler' = Idle
    /\ failures' = failures + 1
    /\ UNCHANGED <<config, now, phase, store, conversation, callback, executed, crashes,
                   recoveries, emergency, reminders, generated, offsets>>

\* subscribe_timezone(): the participant answers with its date and time.  The
\* offset is stored first.  Without participantsEnterCondition the handler goes on
\* to add_subscriber(chat_id, condition, send_notification_broadcast), one argument
\* more than the method takes: TypeError, and the conversation stays where it was.
SubscribeTimezone(c, participant_datetime) ==
    /\ ~Returning
    /\ UpdaterRunning
    /\ handler = Idle
    /\ conversation[c] = "TIMEZONE_STATE"
    /\ Len(offsets) < MaxOffsets
    /\ offsets' = insert_time_offset(offsets, c,
                                     TimeUtil_get_time_offset(now, participant_datetime))
    /\ IF ~config.participantsEnterCondition
       THEN /\ handler' = [ pc |-> "error", chat_id |-> c, raised |-> "TypeError" ]
            /\ UNCHANGED conversation
       ELSE /\ conversation' = [conversation EXCEPT ![c] =
                                   IF config.useTimeCalculation THEN "TIME_STATE"
                                   ELSE "CONDITION_STATE"]
            /\ UNCHANGED handler
    /\ UNCHANGED <<config, now, phase, scheduler, store, callback, executed, crashes,
                   recoveries, emergency, reminders, failures, generated>>

\* subscribe_condition(): the participant answers with a condition number, which
\* the handler's regular expression keeps within 0 .. get_condition_count() - 1
\* add_subscriber returns False without a row under useTimeZoneCalculation.
SubscribeCondition(c, condition) ==
    /\ ~Returning
    /\ UpdaterRunning
    /\ handler = Idle
    /\ conversation[c] = "CONDITION_STATE"
    /\ IF config.useTimeCalculation
       THEN store' = update_subscriber_condition(store, c, condition)
       ELSE IF config.useTimeZoneCalculation
            THEN UNCHANGED store
            ELSE \E draws \in Draws(Len(Flatten(config.end_times))) :
                     store' = add_subscriber(store, c, condition, draws)
    /\ conversation' = [conversation EXCEPT ![c] = "END"]
    /\ UNCHANGED <<config, now, phase, scheduler, handler, callback, executed, crashes,
                   recoveries, emergency, reminders, failures, generated, offsets>>

\* error(): the dispatcher hands the exception a handler raised to the error
\* callback, which logs it
Error ==
    /\ handler.pc = "error"
    /\ handler' = Idle
    /\ UNCHANGED <<config, now, phase, scheduler, store, conversation, callback, executed,
                   crashes, recoveries, emergency, reminders, failures, generated,
                   offsets>>

\* unsubscribe()
Unsubscribe(c) ==
    /\ ~Returning
    /\ UpdaterRunning
    /\ handler = Idle
    /\ store' = remove_subscriber(store, c)
    /\ UNCHANGED <<config, now, phase, scheduler, conversation, handler, callback,
                   executed, crashes, recoveries, emergency, reminders, failures,
                   generated, offsets>>

\* ------------------------------------------------------------ job callbacks

Bump(n) == IF n < MaxExecuted THEN n + 1 ELSE n

\* The scheduler runs a due broadcast job.  send_notification_broadcast removes the
\* job, reads the recipients of (date_str, survey_type) from the table and sends to
\* each of them; `blocked` are the chats that have blocked the bot.  An exception
\* that leaves the callback ends it.
Fire(job, blocked) ==
    /\ phase = "started"
    /\ callback = Idle
    /\ job \in scheduler.jobs
    /\ job.func = SEND_BROADCAST
    /\ MayRun(job)
    /\ WantsReminder(job.survey_type) => reminders < MaxReminders
    /\ LET r == remove_job_from_scheduler(process_job(scheduler, job, now), job.id)
           subscriber_information ==
               query_subscribers_by_date_type(store, job.date_str, job.survey_type)
       IN  /\ scheduler' = r.sched
           /\ callback' = IF r.raised THEN Idle
                          ELSE [ pc |-> "sent",
                                 survey_type |-> job.survey_type,
                                 subscriber_information |-> subscriber_information,
                                 attempts |-> send_surveys(subscriber_information, blocked),
                                 not_rescheduled |-> r.logged,
                                 date_str |-> 0 ]
    /\ executed' = [executed EXCEPT ![job.id] = Bump(@)]
    /\ UNCHANGED <<config, now, phase, store, conversation, handler, crashes, recoveries,
                   emergency, reminders, failures, generated, offsets>>

\* send_notification_broadcast returns: no reminder to schedule
BroadcastReturn ==
    /\ callback.pc = "sent"
    /\ ~WantsReminder(callback.survey_type)
    /\ callback' = Idle
    /\ UNCHANGED <<config, now, phase, scheduler, store, conversation, handler, executed,
                   crashes, recoveries, emergency, reminders, failures, generated,
                   offsets>>

\* ScheduleUtil.schedule_end_survey_reminder: scheduler.add_job(.., DateTrigger(run_date))
ReminderAddJob ==
    /\ callback.pc = "sent"
    /\ WantsReminder(callback.survey_type)
    /\ LET run_date == get_date_time_in(now, config.endSurveyReminderDelayHours)
           info == callback.subscriber_information
           job == [ id |-> AutoId(reminders + 1),
                    func |-> SEND_REMINDER,
                    survey_type |-> END,
                    date_str |-> Format(run_date),
                    date |-> run_date,
                    jitter |-> 0,
                    next_run_time |-> NoRun,
                    runs |-> 0,
                    chat_ids |-> [ i \in DOMAIN info |-> info[i][1] ] ]
       IN  /\ scheduler' = scheduler_add_job(scheduler, job, now).sched
           /\ callback' = [callback EXCEPT !.pc = "insert_reminder_entries",
                                           !.date_str = Format(run_date)]
    /\ reminders' = reminders + 1
    /\ UNCHANGED <<config, now, phase, store, conversation, handler, executed, crashes,
                   recoveries, emergency, failures, generated, offsets>>

\* ScheduleUtil.schedule_end_survey_reminder: insert_end_reminder_entries_from_list
ReminderInsertEntries ==
    /\ callback.pc = "insert_reminder_entries"
    /\ store' = insert_end_reminder_entries_from_list(store, END,
                                                      callback.subscriber_information,
                                                      callback.date_str)
    /\ callback' = Idle
    /\ UNCHANGED <<config, now, phase, scheduler, conversation, handler, executed,
                   crashes, recoveries, emergency, reminders, failures, generated,
                   offsets>>

\* The scheduler runs a due reminder job (send_end_survey_reminder) and drops it
FireReminder(job) ==
    /\ phase = "started"
    /\ callback = Idle
    /\ job \in scheduler.jobs
    /\ job.func = SEND_REMINDER
    /\ MayRun(job)
    /\ scheduler' = [scheduler EXCEPT !.jobs = @ \ {job}]
    /\ UNCHANGED <<config, now, phase, store, conversation, handler, callback, executed,
                   crashes, recoveries, emergency, reminders, failures, generated,
                   offsets>>

\* ------------------------------------------------------- clock, crash, recovery

\* A started scheduler runs a job at its jittered fire time, so the clock does not
\* pass the end of a job's jitter window; handlers and callbacks take no time.
Tick ==
    /\ now < MaxNow
    /\ phase \in {"init", "started", "failed"}
    /\ handler = Idle
    /\ callback = Idle
    /\ phase = "started" => ~ \E job \in scheduler.jobs : Overdue(job)
    /\ now' = now + 1
    /\ UNCHANGED <<config, phase, scheduler, store, conversation, handler, callback,
                   executed, crashes, recoveries, emergency, reminders, failures,
                   generated, offsets>>

\* The process dies and main() runs again up to the construction of ScheduleUtil:
\* the scheduler, the conversations and the work in progress are lost, the database stays
Crash ==
    /\ ~Returning
    /\ crashes < MaxCrashes
    /\ crashes' = crashes + 1
    /\ phase' = "init"
    /\ scheduler' = EmptyScheduler
    /\ conversation' = [ c \in Chats |-> "END" ]
    /\ handler' = Idle
    /\ callback' = Idle
    /\ emergency' = NoEmergency
    /\ UNCHANGED <<config, now, store, executed, recoveries, reminders, failures,
                   generated, offsets>>

\* EmergencyStart(schedule_util, db_handler, send_notification_broadcast): the
\* constructor runs progress(); nothing in the program restricts when it is called.
Recovery(start_key, cleanup_key) ==
    /\ recoveries < MaxRecoveries
    /\ handler = Idle /\ callback = Idle
    /\ LET r == progress(scheduler, store, start_key, cleanup_key, now)
       IN  /\ scheduler' = r.sched
           /\ store' = r.table
           /\ emergency' = [ran |-> TRUE, answers |-> r.answers, raised |-> r.raised]
    /\ recoveries' = recoveries + 1
    /\ UNCHANGED <<config, now, phase, conversation, handler, callback, executed, crashes,
                   reminders, failures, generated, offsets>>

Next ==
    \/ ScheduleNotifications
    \/ UpdaterStartPolling
    \/ SchedulerStart
    \/ \E c \in Chats : Subscribe(c)
    \/ \E c \in Chats, w \in WakeupTimes : SubscribeWakeupTime(c, w)
    \/ EnrollInsertEnd
    \/ EnrollJobsDaily
    \/ EnrollJobsEnd
    \/ \E c \in Chats : Unsubscribe(c)
    \/ \E job \in scheduler.jobs, blocked \in SUBSET Chats : Fire(job, blocked)
    \/ BroadcastReturn
    \/ ReminderAddJob
    \/ ReminderInsertEntries
    \/ \E job \in scheduler.jobs : FireReminder(job)
    \/ Tick
    \/ Crash
    \/ \E k1 \in Keys, k2 \in Keys : Recovery(k1, k2)

Spec == Init /\ [][Next]_vars

\* Enrollment by wake-up time over a job store that can fail a registration
InitFail == Init /\ config.useTimeCalculation

NextFail ==
    \/ ScheduleNotifications
    \/ UpdaterStartPolling
    \/ SchedulerStart
    \/ \E c \in Chats : Subscribe(c)
    \/ \E c \in Chats, w \in WakeupTimes : SubscribeWakeupTime(c, w)
    \/ EnrollInsertEnd
    \/ EnrollJobsDaily
    \/ EnrollJobsEnd
    \/ \E k \in 1 .. MaxSurveys : EnrollJobsRaise(k)
    \/ \E c \in Chats : Unsubscribe(c)
    \/ \E job \in scheduler.jobs, blocked \in SUBSET Chats : Fire(job, blocked)
    \/ BroadcastReturn
    \/ Tick

SpecFail == InitFail /\ [][NextFail]_vars

\* ------------------------------------------------------------ ConfigValidator

\* an error message; `position` is the place in 'end_url' the message names
Msg(text, position) == [ text |-> text, position |-> position ]

\* if cond: error_list.append(msg)
Where(cond, msg) == IF cond THEN <<msg>> ELSE <<>>

NO_MORE_DATES == "Not enough dates to match the number of time lists"
NO_MORE_TIMES == "Not enough time lists to match the number of dates"
NO_MORE_DAYS == "Not enough survey days to match the number of time lists"
NO_MORE_DAY_TIMES == "Not enough time lists to match the number of survey days"

\* ConfigValidator.validate_dates_and_times
validate_dates_and_times(c) ==
    Where(c.subscription_start_date > c.subscription_deadline,
          Msg("subscription start date is after subscription deadline", ""))
    \o (IF ~c.useDayCalculation /\ ~c.useTimeCalculation
        THEN Where(Len(c.daily_dates) < Len(c.daily_times), Msg(NO_MORE_DATES, "daily"))
             \o Where(Len(c.end_dates) < Len(c.end_times), Msg(NO_MORE_DATES, "end"))
             \o Where(Len(c.daily_times) < Len(c.daily_dates), Msg(NO_MORE_TIMES, "daily"))
             \o Where(Len(c.end_times) < Len(c.end_dates), Msg(NO_MORE_TIMES, "end"))
        ELSE <<>>)
    \o (IF c.useDayCalculation /\ ~c.useTimeCalculation
        THEN Where(Len(c.daily_SurveyDays) < Len(c.daily_times), Msg(NO_MORE_DAYS, "daily"))
             \o Where(Len(c.daily_times) < Len(c.daily_SurveyDays),
                      Msg(NO_MORE_DAY_TIMES, "daily"))
             \o Where(Len(c.end_SurveyDays) < Len(c.end_times), Msg(NO_MORE_DAYS, "end"))
             \o Where(Len(c.end_times) < Len(c.end_SurveyDays),
                      Msg(NO_MORE_DAY_TIMES, "end"))
        ELSE <<>>)
    \o (IF c.useTimeCalculation
        THEN Where(c.daily_DelayMinutesAfterWakeup <= 0,
                   Msg("daily_DelayMinutesAfterWakeup must be greater than 0", ""))
             \o Where(c.daily_SurveysPerDay <= 0,
                      Msg("daily_SurveysPerDay must be greater than 0", ""))
             \o Where(c.daily_SurveysPerDay # 1 /\ c.daily_DelayMinutesBetweenSurveys <= 0,
                      Msg("daily_DelayMinutesBetweenSurveys must be greater than 0", ""))
             \o Where(c.end_DelayMinutesAfterWakeup <= 0,
                      Msg("end_DelayMinutesAfterWakeup must be greater than 0", ""))
             \o Where(c.end_SurveysPerDay < 0,
                      Msg("end_SurveysPerDay must be greater or equal than 0", ""))
             \o Where(~(0 <= c.end_SurveysPerDay /\ c.end_SurveysPerDay <= 1)
                         /\ c.end_DelayMinutesBetweenSurveys <= 0,
                      Msg("end_DelayMinutesBetweenSurveys must be greater than 0", ""))
        ELSE <<>>)

\* ConfigValidator.validate_link_deletion_settings
validate_link_deletion_settings(c) ==
    Where(c.start_DeleteLinkTimer /\ c.start_DeleteDelayMinutes <= 0,
          Msg("start_DeleteDelayMinutes must be greater than 0", ""))
    \o Where(c.daily_DeleteLinkTimer /\ c.daily_DeleteDelayMinutes <= 0,
             Msg("daily_DeleteDelayMinutes must be greater than 0", ""))
    \o Where(c.end_DeleteLinkTimer /\ c.end_DeleteDelayMinutes <= 0,
             Msg("end_DeleteDelayMinutes must be greater than 0", ""))
    \o Where(c.endSurveyReminderEnabled /\ c.endSurveyReminderDelayHours <= 0,
             Msg("endSurveyReminderDelayHours must be greater than 0", ""))

\* str(i) of the validator's messages
PositionStr(i) == IF i = 1 THEN "1" ELSE IF i = 2 THEN "2" ELSE "more"

\* for i, condition_links in enumerate(end_url, start=1):
\*     if len(condition_links) != count: error_list.append(msg)
RECURSIVE link_count_errors(_, _, _, _)
link_count_errors(end_url, i, count, text) ==
    IF i > Len(end_url) THEN <<>>
    ELSE Where(Len(end_url[i]) # count, Msg(text, PositionStr(i)))
         \o link_count_errors(end_url, i + 1, count, text)

\* sum([len(list_elem) for list_elem in lists])
RECURSIVE sum_of_lengths(_, _)
sum_of_lengths(lists, i) ==
    IF i > Len(lists) THEN 0 ELSE Len(lists[i]) + sum_of_lengths(lists, i + 1)

\* all(len(l) == len_fst for l in it), `it` being past the first element
SameLengths(lists) == \A i \in DOMAIN lists : Len(lists[i]) = Len(lists[1])

\* ConfigValidator.validate_urls.  next(it) on an empty list raises StopIteration,
\* which leaves the function together with the messages found so far.
validate_urls(c) ==
    LET count_errors ==
            Where(~(Len(c.start_url) = Len(c.daily_url) /\ Len(c.daily_url) = Len(c.end_url)),
                  Msg("Different count of conditions found in urls section.", ""))
        strategy == c.end_url_distribution
        returns(errors) == [ raised |-> "", error_list |-> count_errors \o errors ]
        raises(exception) == [ raised |-> exception, error_list |-> <<>> ]
    IN  IF strategy = "TIME"
        THEN IF c.useTimeCalculation
             THEN returns(link_count_errors(c.end_url, 1, c.end_SurveysPerDay,
                                            "Different count of links, end_SurveysPerDay"))
             ELSE IF c.end_times = <<>>
                  THEN raises("StopIteration")
                  ELSE IF ~SameLengths(c.end_times)
                       THEN returns(<<Msg("Different count of times found in 'end_times'",
                                          "")>>)
                       ELSE returns(link_count_errors(c.end_url, 1, Len(c.end_times[1]),
                                                      "Different count of links, end_times"))
        ELSE IF strategy = "DAY"
        THEN IF c.useDayCalculation
             THEN returns(link_count_errors(c.end_url, 1, Len(c.end_SurveyDays),
                                            "Different count of links, end_SurveyDays"))
             ELSE returns(link_count_errors(c.end_url, 1, Len(c.end_dates),
                                            "Different count of links, end_dates"))
        ELSE IF strategy = "MIXED"
        THEN LET count == IF ~c.useTimeCalculation
                          THEN sum_of_lengths(c.end_times, 1)
                          ELSE IF c.useDayCalculation
                               THEN c.end_SurveysPerDay * Len(c.end_SurveyDays)
                               ELSE c.end_SurveysPerDay * Len(c.end_dates)
             IN  returns(link_count_errors(c.end_url, 1, count,
                                           "Different count of links, number of urls"))
        ELSE IF strategy = "NONE"
        THEN returns(link_count_errors(c.end_url, 1, 1,
                                       "In distributionmode NONE only one url per condition"))
        ELSE IF c.end_url = <<>>
             THEN raises("StopIteration")
             ELSE returns(Where(~SameLengths(c.end_url),
                                Msg("In distributionmode RANDOM same number of links", "")))

CONFIG_VALIDATION_EXCEPTION == "ConfigValidationException"

\* ConfigValidator.validate_config: the three lists joined, raised as one exception
validate_config(c) ==
    LET dates_and_times == validate_dates_and_times(c)
        link_deletion == validate_link_deletion_settings(c)
        urls == validate_urls(c)
        error_list == dates_and_times \o link_deletion \o urls.error_list
    IN  IF urls.raised # "" THEN [ raised |-> urls.raised, message_list |-> <<>> ]
        ELSE IF error_list # <<>>
             THEN [ raised |-> CONFIG_VALIDATION_EXCEPTION, message_list |-> error_list ]
             ELSE [ raised |-> "", message_list |-> <<>> ]

\* The config.json files explored for the validation: the array lengths and the
\* distribution strategy vary, the numbers are valid.
ConfigFiles ==
    [ subscription_start_date : {0},
      subscription_deadline : {MaxNow},
      useTimeZoneCalculation : {FALSE},
      useDayCalculation : BOOLEAN,
      useTimeCalculation : BOOLEAN,
      daily_dates : { <<0>>, <<0, MinutesPerDay * SubMinuteTicks>> },
      daily_times : { << <<1>> >>, << <<1>>, <<1>> >> },
      end_dates : { <<0>>, <<0, MinutesPerDay * SubMinuteTicks>> },
      end_times : { <<>>, << <<2>> >>, << <<2>>, <<3>> >>, << <<2>>, <<2, 3>> >> },
      daily_SurveyDays : { <<1>> },
      end_SurveyDays : { <<1>>, <<1, 2>> },
      daily_DelayMinutesAfterWakeup : {1},
      daily_SurveysPerDay : {1},
      daily_DelayMinutesBetweenSurveys : {1},
      end_DelayMinutesAfterWakeup : {2},
      end_SurveysPerDay : {1},
      end_DelayMinutesBetweenSurveys : {1},
      start_DeleteLinkTimer : {FALSE},
      start_DeleteDelayMinutes : {0},
      daily_DeleteLinkTimer : BOOLEAN,
      daily_DeleteDelayMinutes : {0},
      end_DeleteLinkTimer : {FALSE},
      end_DeleteDelayMinutes : {0},
      endSurveyReminderEnabled : {FALSE},
      endSurveyReminderDelayHours : {1},
      start_url : { <<"s">>, <<"s", "s">> },
      daily_url : { <<"d">> },
      end_url : { <<>>, << <<"e">> >>, << <<"e", "e">> >>, << <<"e">>, <<"e", "e">> >> },
      end_url_distribution : {"NONE", "DAY", "TIME", "MIXED", "RANDOM"} ]

\* main() before "Init...": ConfigHandler() reads and validates config.json.  A
\* ConfigValidationException is logged message by message and the process exits;
\* an exception main() does not name ends the process as well.
LoadConfig ==
    /\ phase = "load"
    /\ LET raised == validate_config(config).raised
       IN  phase' = IF raised = "" THEN "init"
                    ELSE IF raised \in {CONFIG_VALIDATION_EXCEPTION, "ValueError",
                                        "TypeError", "KeyError"}
                         THEN "exit"
                         ELSE "died"
    /\ UNCHANGED <<config, now, scheduler, store, conversation, handler, callback,
                   executed, crashes, recoveries, emergency, reminders, failures,
                   generated, offsets>>

InitConfig ==
    /\ config \in ConfigFiles
    /\ now = 0
    /\ phase = "load"
    /\ scheduler = EmptyScheduler
    /\ store = <<>>
    /\ conversation = [ c \in Chats |-> "END" ]
    /\ handler = Idle
    /\ callback = Idle
    /\ executed = [ id \in JobIds |-> 0 ]
    /\ crashes = 0
    /\ recoveries = 0
    /\ emergency = NoEmergency
    /\ reminders = 0
    /\ failures = 0
    /\ generated = NoCall
    /\ offsets = <<>>

NextConfig == LoadConfig

\* the start of main() over the configuration files
SpecConfig == InitConfig /\ [][NextConfig]_vars

\* ------------------------------------------------- the timestamps of the modes

\* dates of config.json: midnight of one of three days, in any order
ConfigDates == { 0, Days(1), Days(2) }
DateLists == { <<d>> : d \in ConfigDates } \cup { <<d, e>> : d, e \in ConfigDates }

\* day offsets of dayCalculationSettings
SurveyDayLists == { <<d>> : d \in 0 .. 2 } \cup { <<d, e>> : d, e \in 0 .. 2 }

\* time lists of config.json, one per date or day offset
TimeLists == { <<1>>, <<2, 3>>, <<3, 1>> }
TimeListsFor(n) == [ 1 .. n -> TimeLists ]

\* the time settings the validator accepts: delays above 0, a count of 0 for the
\* end surveys only
TimeSettingsChoices ==
    { TimeSettings(wakeup_time, delay_after, survey_count, delay_between) :
        wakeup_time \in {1, 6}, delay_after \in {1, 2},
        survey_count \in {0, 1, 3}, delay_between \in {1, 2} }

\* table offsets: the offset stored for the chat; DbHandler.get_time_offset gives
\* 0 for a chat without one, TimeUtil.get_time_offset stores none within 5 minutes
StoredOffsets == { 0, 6 }

\* the call under examination has returned `result` or raised `raised`
Called(call, days, times, offset, result, raised) ==
    [ call |-> call, today |-> now, days |-> days, times |-> times,
      stored_offset |-> offset, result |-> result, raised |-> raised ]

\* add_subscriber, calendar mode: generate_date_time_list(dates, times) with the
\* offset left at its default
GenerateCalendar(dates, times, offset) ==
    /\ generated = NoCall
    /\ generated' = Called("calendar", dates, times, offset,
                           generate_date_time_list(dates, times, 0), "")
    /\ UNCHANGED <<config, now, phase, scheduler, store, conversation, handler, callback,
                   executed, crashes, recoveries, emergency, reminders, failures,
                   offsets>>

\* add_subscriber, day-offset mode: generate_date_list_for_subscriber_day_calc
GenerateDayOffset(day_list, times, offset) ==
    /\ generated = NoCall
    /\ generated' = Called("day_offset", day_list, times, offset,
                           generate_date_list_for_subscriber_day_calc(now, day_list, times),
                           "")
    /\ UNCHANGED <<config, now, phase, scheduler, store, conversation, handler, callback,
                   executed, crashes, recoveries, emergency, reminders, failures,
                   offsets>>

\* add_subscriber_time_calculated, calendar dates: generate_date_list_for_subscriber
GenerateWakeup(day_list, time_settings, offset) ==
    /\ generated = NoCall
    /\ generated' = Called("wakeup", day_list, time_settings, offset,
                           generate_date_list_for_subscriber(day_list, time_settings), "")
    /\ UNCHANGED <<config, now, phase, scheduler, store, conversation, handler, callback,
                   executed, crashes, recoveries, emergency, reminders, failures,
                   offsets>>

\* add_subscriber_time_calculated, day offsets: generate_date_list_and_add_to_db
GenerateDayOffsetWakeup(day_list, time_settings, offset) ==
    /\ generated = NoCall
    /\ generated' = Called("day_offset_wakeup", day_list, time_settings, offset,
                           generate_date_list_for_subscriber_day_calc_wakeup(
                               now, day_list, time_settings), "")
    /\ UNCHANGED <<config, now, phase, scheduler, store, conversation, handler, callback,
                   executed, crashes, recoveries, emergency, reminders, failures,
                   offsets>>

\* schedule_surveys, day-offset mode: TimeUtil.generate_date_list takes one
\* argument and is called with four, which raises TypeError
ScheduleSurveysDayOffset(day_list, times) ==
    /\ generated = NoCall
    /\ generated' = Called("schedule_surveys", day_list, times, 0, <<>>, "TypeError")
    /\ UNCHANGED <<config, now, phase, scheduler, store, conversation, handler, callback,
                   executed, crashes, recoveries, emergency, reminders, failures,
                   offsets>>

\* the call is over
GenerateReturn ==
    /\ generated # NoCall
    /\ generated' = NoCall
    /\ UNCHANGED <<config, now, phase, scheduler, store, conversation, handler, callback,
                   executed, crashes, recoveries, emergency, reminders, failures,
                   offsets>>

\* the subscription windows explored: one day, two days
Windows == { [BaseConfig EXCEPT !.subscription_deadline = Days(d) + MaxNow] : d \in 0 .. 1 }

InitTime ==
    /\ config \in Windows
    /\ now \in { t \in {0, 3, Days(1) + 1} : t <= config.subscription_deadline }
    /\ phase = "init"
    /\ scheduler = EmptyScheduler
    /\ store = <<>>
    /\ conversation = [ c \in Chats |-> "END" ]
    /\ handler = Idle
    /\ callback = Idle
    /\ executed = [ id \in JobIds |-> 0 ]
    /\ crashes = 0
    /\ recoveries = 0
    /\ emergency = NoEmergency
    /\ reminders = 0
    /\ failures = 0
    /\ generated = NoCall
    /\ offsets = <<>>

NextTime ==
    \/ \E dates \in DateLists, offset \in StoredOffsets :
         \E times \in TimeListsFor(Len(dates)) : GenerateCalendar(dates, times, offset)
    \/ \E day_list \in SurveyDayLists, offset \in StoredOffsets :
         \E times \in TimeListsFor(Len(day_list)) : GenerateDayOffset(day_list, times, offset)
    \/ \E day_list \in DateLists, time_settings \in TimeSettingsChoices,
          offset \in StoredOffsets : GenerateWakeup(day_list, time_settings, offset)
    \/ \E day_list \in SurveyDayLists, time_settings \in TimeSettingsChoices,
          offset \in StoredOffsets : GenerateDayOffsetWakeup(day_list, time_settings, offset)
    \/ \E day_list \in SurveyDayLists :
         \E times \in TimeListsFor(Len(day_list)) : ScheduleSurveysDayOffset(day_list, times)
    \/ GenerateReturn

\* the generation of a subscriber's timestamps in each mode
SpecTime == InitTime /\ [][NextTime]_vars

\* ------------------------------------------------------------ properties

\* the live jobs as a set, and their ids
LiveJobSet(S) == IF S.state = "stopped" THEN Range(S.pending) ELSE S.jobs
LiveIds(S) == { j.id : j \in LiveJobSet(S) }

\* the ids of which S2 holds more live jobs than S1: what a step registered
Registered(S1, S2) == { id \in LiveIds(S2) : CountJobs(S2, id) > CountJobs(S1, id) }

\* the datetimes a registration is asked for: the instants of the clock
RegistrationDates == 0 .. MaxNow

\* the (datetime, SurveyType) pairs of the store an emergency start takes as future
FuturePairs == Range(get_future_survey_dates(store, now))
PairIds(pairs) == { JobId(e[1], e[2]) : e \in pairs }

\* a step of the emergency start, whatever the operator answers
RecoveryStep == \E k1 \in Keys, k2 \in Keys : Recovery(k1, k2)

\* the rows of these recipients for (date_str, survey_type) are in the table
RowsCommitted(T, chat_ids, date_strs, survey_type) ==
    \A c \in chat_ids, d \in date_strs :
        \E i \in DOMAIN T : T[i].chat_id = c /\ T[i].date = d /\ T[i].type = survey_type

\* C1: for every (timestamp, kind) the broadcast callback runs at most once, over
\* any sequence of registrations, jittered firings, crashes with restart and
\* accepted recoveries.
C1_BroadcastAtMostOnce == \A id \in JobIds : executed[id] <= 1

\* C2: registering the same (timestamp, kind) twice through add_jobs_from_list, with
\* no firing in between, leaves exactly one live job with the id
\* format(timestamp)+kind; the second registration finds the job, adds nothing and
\* changes nothing.
C2_SecondRegistrationIsNoOp ==
    \A date \in RegistrationDates, survey_type \in SurveyType :
        LET id == JobId(date, survey_type)
            once == add_jobs_from_list(scheduler, <<date>>, survey_type, now)
            twice == add_jobs_from_list(once, <<date>>, survey_type, now)
        IN  /\ twice = once
            /\ get_job(once, id)
            /\ ~get_job(scheduler, id) =>
                   /\ CountJobs(twice, id) = 1
                   /\ Registered(scheduler, twice) = {id}
                   /\ \A j \in LiveJobSet(twice) :
                          j.id = id => j.date = date /\ j.survey_type = survey_type

\* C2 happens: the second participant's enrollment has just registered the DAILY
\* datetime whose job the first participant's enrollment registered, not yet fired
C2_SecondRegistrationHappens ==
    /\ handler.pc = "jobs_end"
    /\ \E c \in Chats \ {handler.chat_id} : is_already_subscribed(store, c)
    /\ crashes = 0 /\ recoveries = 0
    /\ \A i \in DOMAIN handler.daily_list :
          /\ now < handler.daily_list[i] - JitterOf(DAILY)
          /\ CountJobs(scheduler, JobId(handler.daily_list[i], DAILY)) = 1

\* C3: in every reachable state the job backend holds at most one live job per
\* job id.
C3_OneLiveJobPerId == \A id \in LiveIds(scheduler) : CountJobs(scheduler, id) <= 1

\* C4: an emergency start run twice in succession, the operator accepting both
\* times and no job firing in between, ends with the live jobs of a single run (no
\* job twice, no error) and with the rows unchanged, also when the jobs of the first
\* run are still live.
C4_RecoveryTwiceAsOnce ==
    LET once == progress(scheduler, store, KEY_Y, KEY_Y, now)
        twice == progress(once.sched, once.table, KEY_Y, KEY_Y, now)
    IN  ~once.raised =>
            /\ ~twice.raised
            /\ \A id \in LiveIds(twice.sched) :
                   CountJobs(twice.sched, id) = CountJobs(once.sched, id)
            /\ twice.table = store

\* C5: when the operator accepts, after the emergency start every distinct future
\* (timestamp, kind) of the store has exactly one live job, with the id and the
\* trigger time of the stored timestamp, and the emergency start registers no
\* other job.
C5_AcceptedRecoveryRestoresEachPair ==
    [][ (\E k2 \in Keys : Recovery(KEY_Y, k2)) =>
            /\ \A e \in FuturePairs :
                   /\ CountJobs(scheduler', JobId(e[1], e[2])) = 1
                   /\ \A j \in LiveJobSet(scheduler') :
                          j.id = JobId(e[1], e[2]) => j.date = e[1]
            /\ Registered(scheduler, scheduler') \subseteq PairIds(FuturePairs)
      ]_vars

\* C6: the emergency start never registers a job for a (timestamp, kind) with
\* timestamp <= now, whatever the operator answers; with only past entries in the
\* store it asks the operator nothing and registers nothing.
C6_RecoverySkipsPast ==
    [][ RecoveryStep =>
            /\ \A id \in Registered(scheduler, scheduler') : now < Parse(id[1])
            /\ (\A i \in DOMAIN store : Parse(store[i].date) <= now) =>
                   /\ emergency'.answers = <<>>
                   /\ scheduler' = scheduler
      ]_vars

\* C6 happens: after a restart an emergency start has run over a store holding
\* only past entries, and has asked nothing
C6_RecoveryOverPastStore ==
    /\ phase = "init"
    /\ emergency.ran
    /\ emergency.answers = <<>>
    /\ store # <<>>
    /\ \A i \in DOMAIN store : Parse(store[i].date) <= now
    /\ LiveJobSet(scheduler) = {}

\* C7: an emergency start with a non-empty future set ends in exactly one of two
\* outcomes: every future (timestamp, kind) has its job and the store is unchanged,
\* or no job is registered and all rows are deleted.
C7_RecoveryOutcomeIsBinary ==
    [][ (RecoveryStep /\ FuturePairs # {}) =>
            \/ /\ store' = store
               /\ \A e \in FuturePairs : get_job(scheduler', JobId(e[1], e[2]))
            \/ /\ store' = <<>>
               /\ scheduler' = scheduler
      ]_vars

\* C8: when the emergency start finds a future occurrence and the operator declines
\* the reschedule and accepts the cleanup, the store is empty afterwards (past and
\* future rows of every recipient are gone) and no job has been registered.
C8_DeclineWithCleanupEmptiesStore ==
    [][ (Recovery(KEY_N, KEY_Y) /\ FuturePairs # {}) =>
            /\ store' = <<>>
            /\ scheduler' = scheduler
      ]_vars

\* C8 happens: the operator has declined the reschedule and accepted the cleanup,
\* and the store is empty
C8_CleanupHappens ==
    /\ emergency.ran
    /\ emergency.answers = <<KEY_N, KEY_Y>>
    /\ store = <<>>

\* C9: in the operations that write rows and register a job for them (the
\* enrollment calculated from the wake-up time, the end survey reminder), the rows
\* are in the store before the job is registered.
C9_RowsBeforeJob ==
    [][ /\ EnrollJobsDaily =>
               RowsCommitted(store, {handler.chat_id},
                             { Format(d) : d \in Range(handler.daily_list) }, DAILY)
        /\ EnrollJobsEnd =>
               RowsCommitted(store, {handler.chat_id},
                             { Format(d) : d \in Range(handler.end_list) }, END)
        /\ ReminderAddJob =>
               RowsCommitted(store,
                             { e[1] : e \in Range(callback.subscriber_information) },
                             { Format(get_date_time_in(now,
                                          config.endSurveyReminderDelayHours)) },
                             END)
      ]_vars

\* C10: the emergency start runs once at process start and is complete, the
\* operator's decision included, before any registration driven by the
\* configuration or by an enrollment is accepted.
C10_RecoveryBeforeRegistration == phase # "init" => emergency.ran

\* ------------------------------------------------------------------ broadcast

\* a run of send_notification_broadcast
FireStep(job) == \E blocked \in SUBSET Chats : Fire(job, blocked)

\* the chats of the rows of (date_str, survey_type), in table order
ChatsWithRow(T, date_str, survey_type) ==
    LET rows == SelectSeq(T, LAMBDA r : r.date = date_str /\ r.type = survey_type)
    IN  [ i \in DOMAIN rows |-> rows[i].chat_id ]

\* the chats a callback tried to send to, in order
Attempted(cb) == [ i \in DOMAIN cb.attempts |-> cb.attempts[i].chat_id ]

\* C11: when a job's callback runs, the chats it sends to are exactly the chats
\* that have a row for the job's (timestamp, kind) in the table at that moment,
\* once each: not the chats that had one when the job was registered.
C11_RecipientsResolvedAtFireTime ==
    [][ \A job \in scheduler.jobs :
            FireStep(job) =>
                Attempted(callback') = ChatsWithRow(store, job.date_str, job.survey_type)
      ]_vars

\* C11 witness: with wake-up times a job exists only because a chat enrolled; the
\* job has run and found no recipient left
C11_FiredAfterWithdrawal ==
    /\ config.useTimeCalculation
    /\ callback.pc = "sent"
    /\ callback.attempts = <<>>

\* C12: an Unauthorized failure for one recipient does not end the broadcast:
\* every recipient the callback read from the table gets its send attempt, in
\* the order read, wherever the failing recipient stands in the list.
C12_UnauthorizedDoesNotAbort ==
    callback # Idle =>
        /\ Len(callback.attempts) = Len(callback.subscriber_information)
        /\ \A i \in DOMAIN callback.attempts :
               callback.attempts[i].chat_id = callback.subscriber_information[i][1]

\* C12 witness: the first of two recipients has blocked the bot, the second was sent to
C12_SentAfterUnauthorized ==
    /\ callback.pc = "sent"
    /\ Len(callback.attempts) = 2
    /\ ~callback.attempts[1].sent
    /\ callback.attempts[2].sent

\* C13: when the callback unregisters a job the scheduler no longer holds, the
\* lookup failure is logged and not raised, the scheduler is left as it was, and
\* the callback goes on to send to the recipients of its (timestamp, kind).
C13_LookupFailureIsSwallowed ==
    [][ \A job \in scheduler.jobs :
            LET S == process_job(scheduler, job, now)
            IN  FireStep(job) /\ ~get_job(S, job.id) =>
                    /\ scheduler' = S
                    /\ callback'.pc = "sent"
                    /\ callback'.not_rescheduled
                    /\ Attempted(callback') =
                           ChatsWithRow(store, job.date_str, job.survey_type)
      ]_vars

\* C13 witness: a callback found its job gone and has sent to a recipient
C13_SentAfterLookupFailure ==
    /\ callback.pc = "sent"
    /\ callback.not_rescheduled
    /\ callback.attempts # <<>>

\* -------------------------------------------------------------- configuration

\* dates against time lists, in calendar mode
DatesTimesMismatch(c) ==
    /\ ~c.useDayCalculation /\ ~c.useTimeCalculation
    /\ \/ Len(c.daily_dates) # Len(c.daily_times)
       \/ Len(c.end_dates) # Len(c.end_times)

\* day offsets against time lists, in day-offset mode
OffsetsTimesMismatch(c) ==
    /\ c.useDayCalculation /\ ~c.useTimeCalculation
    /\ \/ Len(c.daily_SurveyDays) # Len(c.daily_times)
       \/ Len(c.end_SurveyDays) # Len(c.end_times)

\* link variants against the strategy: NONE wants one link per condition, DAY one
\* per end survey day
LinksStrategyMismatch(c) ==
    \/ /\ c.end_url_distribution = "NONE"
       /\ \E i \in DOMAIN c.end_url : Len(c.end_url[i]) # 1
    \/ /\ c.end_url_distribution = "DAY"
       /\ \E i \in DOMAIN c.end_url :
              Len(c.end_url[i]) # (IF c.useDayCalculation THEN Len(c.end_SurveyDays)
                                   ELSE Len(c.end_dates))

\* C14: a configuration with a cross-array length mismatch ends the start with one
\* ConfigValidationException that carries the messages of all three validators,
\* with no job registered and no row written.
C14_MismatchIsOneValidationFailure ==
    (phase # "load"
        /\ (DatesTimesMismatch(config) \/ OffsetsTimesMismatch(config)
               \/ LinksStrategyMismatch(config)))
    => /\ phase = "exit"
       /\ validate_config(config).raised = CONFIG_VALIDATION_EXCEPTION
       /\ validate_config(config).message_list =
              validate_dates_and_times(config) \o validate_link_deletion_settings(config)
                  \o validate_urls(config).error_list
       /\ LiveJobSet(scheduler) = {}
       /\ store = <<>>

\* --------------------------------------------------------- failing job store

\* the handler's registration of its k-th date is the one the job store fails
RaisesAt(k) ==
    /\ EnrollJobsRaise(k)
    /\ k \in DOMAIN (IF handler.pc = "jobs_daily" THEN handler.daily_list
                     ELSE handler.end_list)

\* the handler's row for the k-th date of the list it is registering
RowOfFailedJob(T, k) ==
    LET survey_type == IF handler.pc = "jobs_daily" THEN DAILY ELSE END
        datetime_list == IF handler.pc = "jobs_daily" THEN handler.daily_list
                         ELSE handler.end_list
    IN  \E i \in DOMAIN T :
            /\ T[i].chat_id = handler.chat_id
            /\ T[i].type = survey_type
            /\ T[i].date = Format(datetime_list[k])

\* C15: when the job store fails a registration, no state is left as if the job
\* existed: the subscriber's row for the (timestamp, kind) whose job was never
\* registered does not stay in the table.
C15_FailedRegistrationLeavesNoRow ==
    [][ \A k \in 1 .. MaxSurveys : RaisesAt(k) => ~RowOfFailedJob(store', k) ]_vars

\* ------------------------------------------------------ generated timestamps

\* the calls that return a subscriber's timestamps
Modes == {"calendar", "day_offset", "wakeup", "day_offset_wakeup"}

\* the timestamp of time-of-day `time` (in minutes) on the day of `date`
Stamp(date, time) == Days(date \div TicksPerDay) + Minutes(time)

StrictlyIncreasing(s) == \A i \in 1 .. (Len(s) - 1) : s[i] < s[i + 1]

\* C16: in every mode the generated sequence is ordered in time and has no two
\* equal timestamps, whatever the order of the configured dates or day offsets.
C16_SortedWithoutDuplicates ==
    generated.call \in Modes => StrictlyIncreasing(generated.result)

WindowDays(d) ==
    ((config.subscription_start_date \div TicksPerDay) + d)
        .. ((config.subscription_deadline \div TicksPerDay) + d)

\* C18: in day-offset mode each offset d expands to every day of
\* [window_start + d, window_end + d], with one timestamp per time of the offset's
\* time list on each of these days; registering the jobs of this mode does not fail.
C18_OffsetExpandsOverWindow ==
    /\ generated.call = "day_offset" =>
           Range(generated.result) =
               UNION { { Days(day) + Minutes(generated.times[i][k]) :
                             day \in WindowDays(generated.days[i]),
                             k \in DOMAIN generated.times[i] } : i \in DOMAIN generated.days }
    /\ generated.call = "schedule_surveys" => generated.raised = ""

\* the anchor days of a wakeup-anchored call
AnchorDays(g) ==
    IF g.call = "wakeup" THEN g.days
    ELSE [ i \in DOMAIN g.days |-> g.today + Days(g.days[i]) ]

Unshifted(g) ==
    IF g.call = "calendar" THEN generate_date_time_list(g.days, g.times, 0)
    ELSE IF g.call = "day_offset"
    THEN generate_date_list_for_subscriber_day_calc(g.today, g.days, g.times)
    ELSE IF g.call = "wakeup" THEN generate_date_list_for_subscriber(g.days, g.times)
    ELSE generate_date_list_for_subscriber_day_calc_wakeup(g.today, g.days, g.times)

\* C20: in each mode every timestamp computed for a recipient is the unshifted
\* timestamp plus the offset stored for the recipient (0 when none is stored).
C20_StoredOffsetApplied ==
    generated.call \in Modes =>
        /\ Len(generated.result) = Len(Unshifted(generated))
        /\ \A i \in DOMAIN generated.result :
               generated.result[i] =
                   apply_time_offset(Unshifted(generated)[i], generated.stored_offset)

\* ------------------------------------------------- the end link distribution

Strategies == { "NONE", "DAY", "TIME", "MIXED", "RANDOM" }

\* enrollment by wake-up time under each strategy, with one end survey a day and
\* with none (the validator accepts end_SurveysPerDay = 0); RANDOM has two links
\* per condition
DistConfigs ==
    { [BaseConfig EXCEPT !.useTimeCalculation = TRUE,
                         !.end_url_distribution = strategy,
                         !.end_url_count = IF strategy = "RANDOM" THEN 2 ELSE 1,
                         !.end_SurveysPerDay = survey_count] :
        strategy \in Strategies, survey_count \in {0, 1} }

\* END datetimes: two minutes on each of three days, the third of which is one
\* month after the first and so has its day of the month
EndStamps == { Days(d) + Minutes(m) : d \in {0, 1, DaysPerMonth}, m \in {1, 2} }

\* the sorted lists without duplicates of up to MaxEndList of them
EndLists ==
    { end_list \in UNION { [1 .. n -> EndStamps] : n \in 0 .. MaxEndList } :
        \A i \in 1 .. (Len(end_list) - 1) : end_list[i] < end_list[i + 1] }

\* calculate_end_distribution(end_list) has returned `result` or raised `raised`
Assigned(end_list, result, raised) ==
    [ call |-> "end_distribution", end_list |-> end_list, result |-> result,
      raised |-> raised ]

\* a call of calculate_end_distribution
AssignIndices(end_list, draws) ==
    /\ generated = NoCall
    /\ handler = Idle
    /\ generated' = IF calculate_end_distribution_raised(end_list) # ""
                    THEN Assigned(end_list, <<>>, calculate_end_distribution_raised(end_list))
                    ELSE Assigned(end_list, calculate_end_distribution(end_list, draws), "")
    /\ UNCHANGED <<config, now, phase, scheduler, store, conversation, handler, callback,
                   executed, crashes, recoveries, emergency, reminders, failures,
                   offsets>>

\* the call is over
AssignReturn ==
    /\ generated # NoCall
    /\ generated' = NoCall
    /\ UNCHANGED <<config, now, phase, scheduler, store, conversation, handler, callback,
                   executed, crashes, recoveries, emergency, reminders, failures,
                   offsets>>

InitDist ==
    /\ config \in DistConfigs
    /\ now = 0
    /\ phase = "init"
    /\ scheduler = EmptyScheduler
    /\ store = <<>>
    /\ conversation = [ c \in Chats |-> "END" ]
    /\ handler = Idle
    /\ callback = Idle
    /\ executed = [ id \in JobIds |-> 0 ]
    /\ crashes = 0
    /\ recoveries = 0
    /\ emergency = NoEmergency
    /\ reminders = 0
    /\ failures = 0
    /\ generated = NoCall
    /\ offsets = <<>>

NextDist ==
    \/ ScheduleNotifications
    \/ UpdaterStartPolling
    \/ SchedulerStart
    \/ \E c \in Chats : Subscribe(c)
    \/ \E c \in Chats, w \in WakeupTimes : SubscribeWakeupTime(c, w)
    \/ EnrollInsertEnd
    \/ EnrollJobsDaily
    \/ EnrollJobsEnd
    \/ Error
    \/ \E end_list \in EndLists : \E draws \in Draws(Len(end_list)) :
         AssignIndices(end_list, draws)
    \/ AssignReturn

\* the assignment of end link indices, alone and within an enrollment
SpecDist == InitDist /\ [][NextDist]_vars

\* ------------------------------------------------------- end link indices

\* the calendar day (the full date) of a datetime
DateOf(dt) == dt \div TicksPerDay

\* calculate_end_distribution has been called under `strategy`; it has returned
DistCalled(strategy) ==
    generated.call = "end_distribution" /\ config.end_url_distribution = strategy
DistReturned(strategy) == DistCalled(strategy) /\ generated.raised = ""

\* C21: under DAY, over a sorted list without duplicates, the index starts at 0,
\* goes up by exactly 1 between two consecutive datetimes whose full dates differ
\* and stays the same within a date.
C21_DayIndexFollowsTheDate ==
    DistReturned("DAY") =>
        LET end_list == generated.end_list
            result == generated.result
        IN  /\ result[1] = 0
            /\ \A i \in 1 .. (Len(end_list) - 1) :
                 result[i + 1] = IF DateOf(end_list[i]) # DateOf(end_list[i + 1])
                                 THEN result[i] + 1 ELSE result[i]

\* C22: under TIME, over a sorted list without duplicates, the first datetime of
\* each full date has index 0 and every further datetime of that date has the
\* index of its predecessor plus 1.
C22_TimeIndexIsOrdinalWithinDate ==
    DistReturned("TIME") =>
        LET end_list == generated.end_list
            result == generated.result
        IN  /\ result[1] = 0
            /\ \A i \in 1 .. (Len(end_list) - 1) :
                 result[i + 1] = IF DateOf(end_list[i]) # DateOf(end_list[i + 1])
                                 THEN 0 ELSE result[i] + 1

\* C23: for every strategy the call gives an index list as long as the datetime
\* list, and under NONE every index is 0.
C23_SameLengthAndNoneIsZero ==
    generated.call = "end_distribution" =>
        /\ generated.raised = ""
        /\ Len(generated.result) = Len(generated.end_list)
        /\ DistCalled("NONE") => \A i \in DOMAIN generated.result : generated.result[i] = 0

\* C24: under MIXED the k-th datetime (k from 0) gets index k, for a list of any
\* length: the indices are 0 .. N-1 in order.
C24_MixedIndexIsPosition ==
    DistCalled("MIXED") =>
        /\ generated.raised = ""
        /\ generated.result = [ i \in DOMAIN generated.end_list |-> i - 1 ]

\* C25: under RANDOM every index lies in 0 .. variant_count - 1, and every list of
\* indices in that range is a possible result of the call: the index of one
\* datetime does not constrain the index of another.
C25_RandomIndicesInRangeUncoupled ==
    /\ DistReturned("RANDOM") =>
         \A i \in DOMAIN generated.result :
             generated.result[i] \in 0 .. (config.end_url_count - 1)
    /\ (config.end_url_distribution = "RANDOM" /\ generated = NoCall /\ handler = Idle) =>
         \A end_list \in EndLists \ {<<>>} :
             \A indices \in [DOMAIN end_list -> 0 .. (config.end_url_count - 1)] :
                 ENABLED (\E draws \in Draws(Len(end_list)) :
                              /\ AssignIndices(end_list, draws)
                              /\ generated' = Assigned(end_list, indices, ""))

\* C25 witness: a call under RANDOM over three datetimes has returned indices that
\* differ and are not in order
C25_ThreeIndicesDrawn ==
    /\ DistReturned("RANDOM")
    /\ generated.result = <<1, 0, 1>>

\* C26: for every strategy the call over the empty list returns the empty list and
\* raises nothing, and no enrollment ends in an exception of the index assignment.
C26_EmptyListGivesEmptyList ==
    /\ (generated.call = "end_distribution" /\ generated.end_list = <<>>) =>
         (generated.raised = "" /\ generated.result = <<>>)
    /\ handler.pc # "error"

\* ------------------------------------------------------------ subscribers table

\* C27: in every reachable state the table holds at most one row per (chat id,
\* date, type), whatever enrollments, withdrawals, end survey reminders and
\* emergency starts have happened.
C27_OneRowPerChatDateType ==
    \A i, j \in DOMAIN store :
        (/\ store[i].chat_id = store[j].chat_id
         /\ store[i].date = store[j].date
         /\ store[i].type = store[j].type) => i = j

\* ------------------------------------------------ conditions entered by hand

\* participants enter their condition: two conditions, enrollment from the
\* calendar and by wake-up time
ConditionConfigs ==
    { [BaseConfig EXCEPT !.participantsEnterCondition = TRUE,
                         !.start_url_count = 2,
                         !.useTimeCalculation = by_wakeup_time] :
        by_wakeup_time \in BOOLEAN }

InitCondition ==
    /\ config \in ConditionConfigs
    /\ now = 0
    /\ phase = "init"
    /\ scheduler = EmptyScheduler
    /\ store = <<>>
    /\ conversation = [ c \in Chats |-> "END" ]
    /\ handler = Idle
    /\ callback = Idle
    /\ executed = [ id \in JobIds |-> 0 ]
    /\ crashes = 0
    /\ recoveries = 0
    /\ emergency = NoEmergency
    /\ reminders = 0
    /\ failures = 0
    /\ generated = NoCall
    /\ offsets = <<>>

NextCondition ==
    \/ ScheduleNotifications
    \/ UpdaterStartPolling
    \/ SchedulerStart
    \/ \E c \in Chats : Subscribe(c)
    \/ \E c \in Chats, w \in WakeupTimes : SubscribeWakeupTime(c, w)
    \/ EnrollInsertEnd
    \/ EnrollJobsDaily
    \/ EnrollJobsEnd
    \/ \E c \in Chats, condition \in Conditions : SubscribeCondition(c, condition)
    \/ \E c \in Chats : Unsubscribe(c)
    \/ \E job \in scheduler.jobs, blocked \in SUBSET Chats : Fire(job, blocked)
    \/ BroadcastReturn
    \/ Tick

\* the bot where the participants enter their condition
SpecCondition == InitCondition /\ [][NextCondition]_vars

\* the rows of one chat, in insertion order
RowsOf(T, chat_id) == SelectSeq(T, LAMBDA r : r.chat_id = chat_id)

\* C28: a row is never modified once it is created: a step leaves the rows of a
\* chat as they are, adds rows to them or deletes them; the condition, date,
\* type and end index of a row that stays do not change.
C28_RowsAreNeverModified ==
    [][\A c \in Chats :
          \/ Range(RowsOf(store, c)) \subseteq Range(RowsOf(store', c))
          \/ RowsOf(store', c) = <<>>]_vars

\* ------------------------------------------------ local times reported by hand

\* participants report their local time and their wake-up time, with and without
\* entering their condition
ZoneConfigs ==
    { [BaseConfig EXCEPT !.useTimeZoneCalculation = TRUE,
                         !.useTimeCalculation = TRUE,
                         !.participantsEnterCondition = enter_condition] :
        enter_condition \in BOOLEAN }

\* the datetimes a participant may answer with: the minute of now, three and six
\* minutes later
ParticipantDatetimes == { Parse(0), Parse(3), Parse(6) }

InitZone ==
    /\ config \in ZoneConfigs
    /\ now = 0
    /\ phase = "init"
    /\ scheduler = EmptyScheduler
    /\ store = <<>>
    /\ conversation = [ c \in Chats |-> "END" ]
    /\ handler = Idle
    /\ callback = Idle
    /\ executed = [ id \in JobIds |-> 0 ]
    /\ crashes = 0
    /\ recoveries = 0
    /\ emergency = NoEmergency
    /\ reminders = 0
    /\ failures = 0
    /\ generated = NoCall
    /\ offsets = <<>>

NextZone ==
    \/ ScheduleNotifications
    \/ UpdaterStartPolling
    \/ SchedulerStart
    \/ \E c \in Chats : Subscribe(c)
    \/ \E c \in Chats, participant_datetime \in ParticipantDatetimes :
         SubscribeTimezone(c, participant_datetime)
    \/ \E c \in Chats, w \in WakeupTimes : SubscribeWakeupTime(c, w)
    \/ EnrollInsertEnd
    \/ EnrollJobsDaily
    \/ EnrollJobsEnd
    \/ \E c \in Chats, condition \in Conditions : SubscribeCondition(c, condition)
    \/ \E c \in Chats : Unsubscribe(c)
    \/ Error

\* the bot where the participants report their local time
SpecZone == InitZone /\ [][NextZone]_vars

\* the rows of one chat in table offsets, in insertion order
OffsetsOf(O, chat_id) == SelectSeq(O, LAMBDA r : r.chat_id = chat_id)

\* C29: a chat has one effective offset: once a chat has reported a time, also
\* after a withdrawal and a new subscription, the offset read for it is the one
\* of the time it reported last.
C29_OffsetReadIsTheLastReported ==
    \A c \in Chats :
        OffsetsOf(offsets, c) # <<>> =>
            get_time_offset(offsets, c)
                = OffsetsOf(offsets, c)[Len(OffsetsOf(offsets, c))].offset

\* ------------------------------------------- scheduler thread and worker thread

\* The steps of the scheduler thread and of a worker of the pool apart, with the
\* clock free to move between them.  One worker is followed: while it runs a
\* callback the scheduler thread hands over runs of that job only; the callbacks
\* of other jobs touch the store under their own job id.

\* BaseScheduler._process_jobs for one due job: the run is handed to the executor,
\* which rejects it while an instance of the job is running (the rejection is
\* logged); then the trigger is asked for the next fire time
ProcessJob(job) ==
    /\ phase = "started"
    /\ job \in scheduler.jobs
    /\ job.func = SEND_BROADCAST
    /\ MayRun(job)
    /\ IF callback.pc = "idle" THEN TRUE ELSE callback.job_id = job.id
    /\ IF max_instances_reached(callback, job)
       THEN /\ callback' = [callback EXCEPT !.rejected = TRUE]
            /\ scheduler' = process_job(scheduler, job, now)
            /\ UNCHANGED executed
       ELSE /\ callback' = [ pc |-> "start", job_id |-> job.id,
                             survey_type |-> job.survey_type, date_str |-> job.date_str,
                             early |-> now < job.next_run_time, rejected |-> FALSE ]
            /\ scheduler' = count_run(process_job(scheduler, job, now), job)
            /\ executed' = [executed EXCEPT ![job.id] = Bump(@)]
    /\ UNCHANGED <<config, now, phase, store, conversation, handler, crashes, recoveries,
                   emergency, reminders, failures, generated, offsets>>

\* send_notification_broadcast, first statement: remove_job_from_scheduler(job_id)
CallbackRemoveJob ==
    /\ callback.pc = "start"
    /\ scheduler' = remove_job_from_scheduler(scheduler, callback.job_id).sched
    /\ callback' = [callback EXCEPT !.pc = "removed"]
    /\ UNCHANGED <<config, now, phase, store, conversation, handler, executed, crashes,
                   recoveries, emergency, reminders, failures, generated, offsets>>

\* send_notification_broadcast, the rest: the recipients are read and the surveys
\* sent; the callback returns and the executor forgets the instance
CallbackSend ==
    /\ callback.pc = "removed"
    /\ callback' = Idle
    /\ UNCHANGED <<config, now, phase, scheduler, store, conversation, handler, executed,
                   crashes, recoveries, emergency, reminders, failures, generated,
                   offsets>>

\* the clock moves whatever the handlers and the worker are doing; the scheduler
\* thread does not let the end of a job's jitter window pass
Elapse ==
    /\ now < MaxNow
    /\ phase \in {"init", "started", "failed"}
    /\ phase = "started" => ~ \E job \in scheduler.jobs : Overdue(job)
    /\ now' = now + 1
    /\ UNCHANGED <<config, phase, scheduler, store, conversation, handler, callback,
                   executed, crashes, recoveries, emergency, reminders, failures,
                   generated, offsets>>

InitRace ==
    /\ config \in { BaseConfig, [BaseConfig EXCEPT !.useTimeCalculation = TRUE] }
    /\ now = 0
    /\ phase = "init"
    /\ scheduler = EmptyScheduler
    /\ store = <<>>
    /\ conversation = [ c \in Chats |-> "END" ]
    /\ handler = Idle
    /\ callback = Idle
    /\ executed = [ id \in JobIds |-> 0 ]
    /\ crashes = 0
    /\ recoveries = 0
    /\ emergency = NoEmergency
    /\ reminders = 0
    /\ failures = 0
    /\ generated = NoCall
    /\ offsets = <<>>

NextRace ==
    \/ ScheduleNotifications
    \/ UpdaterStartPolling
    \/ SchedulerStart
    \/ \E c \in Chats : Subscribe(c)
    \/ \E c \in Chats, w \in WakeupTimes : SubscribeWakeupTime(c, w)
    \/ EnrollInsertEnd
    \/ EnrollJobsDaily
    \/ EnrollJobsEnd
    \/ \E c \in Chats : Unsubscribe(c)
    \/ \E job \in scheduler.jobs : ProcessJob(job)
    \/ CallbackRemoveJob
    \/ CallbackSend
    \/ Elapse

\* one process lifetime of the bot, scheduler thread and worker thread interleaved
SpecRace == InitRace /\ [][NextRace]_vars

\* C30: within one process lifetime a registration is executed at most once: a step
\* that starts the callback of a job (and counts it in executed) starts it for a job
\* that has not run since it was registered, however the scheduler thread and the
\* worker are interleaved.
C30_OneExecutionPerRegistration ==
    [][\A job \in scheduler.jobs :
          executed'[job.id] # executed[job.id] => job.runs = 0]_vars

\* C30 witness: a job ran before its minute, the scheduler thread came to the job
\* again before the callback had removed it, and the second run was rejected
C30_SecondRunRejected ==
    /\ callback.pc = "start"
    /\ callback.early
    /\ callback.rejected
    /\ executed[callback.job_id] = 1

\* ------------------------------------------------------------------- job ids

\* the broadcast jobs the scheduler lists
BroadcastJobs(S) == { j \in LiveJobSet(S) : j.func = SEND_BROADCAST }

\* C31: the job id depends on the minute of the timestamp and on the kind only:
\* rows with the same date string and type have the same job id whatever their
\* chat, rows that differ in the minute or in the type have different ones; a
\* broadcast job carries the id of its minute and kind and no recipient, and the
\* started scheduler holds one job of an id.
C31_JobIdOfMinuteAndKind ==
    /\ \A i, j \in DOMAIN store :
         (JobId(Parse(store[i].date), store[i].type)
              = JobId(Parse(store[j].date), store[j].type))
            <=> (store[i].date = store[j].date /\ store[i].type = store[j].type)
    /\ \A job \in BroadcastJobs(scheduler) :
         /\ job.chat_ids = <<>>
         /\ \A t \in Parse(job.date_str) .. (Parse(job.date_str + 1) - 1) :
              job.id = JobId(t, job.survey_type)
    /\ scheduler.state = "running" =>
         \A j1, j2 \in BroadcastJobs(scheduler) : j1.id = j2.id => j1 = j2

\* C31 witness: both chats have a row for the same minute and kind, another row of
\* that kind is stored for another minute, and one job serves the two chats
C31_TwoChatsOneJob ==
    /\ scheduler.state = "running"
    /\ \E i, j, k \in DOMAIN store :
         /\ store[i].chat_id # store[j].chat_id
         /\ store[i].date = store[j].date /\ store[i].type = store[j].type
         /\ store[k].type = store[i].type /\ store[k].date # store[i].date
         /\ Cardinality({ job \in BroadcastJobs(scheduler) :
                            job.id = JobId(Parse(store[i].date), store[i].type) }) = 1

\* ------------------------------------------------- end links over a restart

\* wake-up time scheduling with the end links drawn at random from two
RestoreConfigs ==
    { [BaseConfig EXCEPT !.useTimeCalculation = TRUE,
                         !.end_url_distribution = "RANDOM",
                         !.end_url_count = 2] }

InitRestore ==
    /\ config \in RestoreConfigs
    /\ now = 0
    /\ phase = "init"
    /\ scheduler = EmptyScheduler
    /\ store = <<>>
    /\ conversation = [ c \in Chats |-> "END" ]
    /\ handler = Idle
    /\ callback = Idle
    /\ executed = [ id \in JobIds |-> 0 ]
    /\ crashes = 0
    /\ recoveries = 0
    /\ emergency = NoEmergency
    /\ reminders = 0
    /\ failures = 0
    /\ generated = NoCall
    /\ offsets = <<>>

NextRestore ==
    \/ ScheduleNotifications
    \/ UpdaterStartPolling
    \/ SchedulerStart
    \/ \E c \in Chats : Subscribe(c)
    \/ \E c \in Chats, w \in WakeupTimes : SubscribeWakeupTime(c, w)
    \/ EnrollInsertEnd
    \/ EnrollJobsDaily
    \/ EnrollJobsEnd
    \/ Tick
    \/ Crash
    \/ \E k1 \in Keys, k2 \in Keys : Recovery(k1, k2)

SpecRestore == InitRestore /\ [][NextRestore]_vars

\* the emergency start in which the operator declines the jobs and has the
\* database cleaned
CleanupStep == Recovery(KEY_N, KEY_Y)

\* C32: no step of a restart (the process ending, main() running again) and no
\* emergency start short of the cleanup changes a stored row: each row keeps its
\* place and its end link index, the index drawn under RANDOM included; rows are
\* only added, by an enrollment.
C32_RestartKeepsIndices ==
    [][ \/ CleanupStep
        \/ /\ \A i \in DOMAIN store : i \in DOMAIN store' /\ store'[i] = store[i]
           /\ (Crash \/ RecoveryStep \/ ScheduleNotifications \/ UpdaterStartPolling
                 \/ SchedulerStart) => store' = store ]_vars

\* C32 witness: after a restart the emergency start has put back the jobs of two END
\* rows whose end links were drawn differently
C32_RestoredWithBothLinks ==
    /\ crashes = 1
    /\ emergency.ran /\ emergency.answers = <<KEY_Y>> /\ ~emergency.raised
    /\ \E i, j \in DOMAIN store :
         /\ store[i].type = END /\ store[j].type = END
         /\ store[i].end_index = 0 /\ store[j].end_index = 1
         /\ get_job(scheduler, JobId(Parse(store[i].date), END))

\* ------------------------------------------------------- random time shift

\* calendar and wake-up time scheduling with a time shift for one survey type only
ShiftConfigs ==
    { [c EXCEPT !.daily_RandomTimeShiftMinutes = shift[1],
                !.end_RandomTimeShiftMinutes = shift[2]] :
        c \in {BaseConfig, [BaseConfig EXCEPT !.useTimeCalculation = TRUE]},
        shift \in {<<0, 1>>, <<1, 0>>} }

InitShift ==
    /\ config \in ShiftConfigs
    /\ now = 0
    /\ phase = "init"
    /\ scheduler = EmptyScheduler
    /\ store = <<>>
    /\ conversation = [ c \in Chats |-> "END" ]
    /\ handler = Idle
    /\ callback = Idle
    /\ executed = [ id \in JobIds |-> 0 ]
    /\ crashes = 0
    /\ recoveries = 0
    /\ emergency = NoEmergency
    /\ reminders = 0
    /\ failures = 0
    /\ generated = NoCall
    /\ offsets = <<>>

NextShift ==
    \/ ScheduleNotifications
    \/ UpdaterStartPolling
    \/ SchedulerStart
    \/ \E c \in Chats : Subscribe(c)
    \/ \E c \in Chats, w \in WakeupTimes : SubscribeWakeupTime(c, w)
    \/ EnrollInsertEnd
    \/ EnrollJobsDaily
    \/ EnrollJobsEnd
    \/ \E job \in scheduler.jobs, blocked \in SUBSET Chats : Fire(job, blocked)
    \/ BroadcastReturn
    \/ Tick

SpecShift == InitShift /\ [][NextShift]_vars

\* the configured time shift of a survey type, taken as minutes
RandomTimeShiftMinutes(survey_type) ==
    Minutes(IF survey_type = DAILY THEN config.daily_RandomTimeShiftMinutes
            ELSE config.end_RandomTimeShiftMinutes)

\* C33: a broadcast job runs no earlier than the minute of its date less the time
\* shift configured for its survey type and no later than that minute plus the
\* shift, the shift taken in minutes.
C33_FiresWithinTheShift ==
    [][ \A job \in BroadcastJobs(scheduler) :
          FireStep(job) =>
            /\ Parse(job.date_str) - RandomTimeShiftMinutes(job.survey_type) <= now
            /\ now <= Parse(job.date_str) + RandomTimeShiftMinutes(job.survey_type) ]_vars

\* C33 witness: a job of the shifted survey type has run before its minute, the job
\* of the other type is still registered
C33_FiredBeforeItsMinute ==
    /\ callback # Idle /\ callback.pc = "sent"
    /\ \E id \in JobIds :
         /\ executed[id] = 1
         /\ id[2] = callback.survey_type
         /\ now < Parse(id[1])
         /\ RandomTimeShiftMinutes(id[2]) > 0
    /\ \E job \in BroadcastJobs(scheduler) : RandomTimeShiftMinutes(job.survey_type) = 0

\* ------------------------------------------------ end links of the enrolled

\* config.json of a Config: the url lists of as many conditions and end links as
\* the Config counts, link deletion off
ConfigFile(c) ==
    c @@ [ start_url |-> [ i \in 1 .. c.start_url_count |-> "s" ],
           daily_url |-> [ i \in 1 .. c.start_url_count |-> "d" ],
           end_url |-> [ i \in 1 .. c.start_url_count |->
                           [ k \in 1 .. c.end_url_count |-> "e" ] ],
           daily_SurveyDays |-> <<1>>,
           end_SurveyDays |-> <<1>>,
           start_DeleteLinkTimer |-> FALSE,
           start_DeleteDelayMinutes |-> 0,
           daily_DeleteLinkTimer |-> FALSE,
           daily_DeleteDelayMinutes |-> 0,
           end_DeleteLinkTimer |-> FALSE,
           end_DeleteDelayMinutes |-> 0 ]

\* The files explored: end surveys that run past midnight under DAY; end dates one
\* month apart under TIME, by wake-up time and by the calendar; two end surveys a
\* day under MIXED with two links and, which the validator refuses, with one.
LinkFiles ==
    { ConfigFile([BaseConfig EXCEPT !.useTimeCalculation = TRUE,
                                    !.end_url_distribution = "DAY",
                                    !.end_SurveysPerDay = 2,
                                    !.end_DelayMinutesAfterWakeup = MinutesPerDay - 1]),
      ConfigFile([BaseConfig EXCEPT !.useTimeCalculation = TRUE,
                                    !.end_url_distribution = "TIME",
                                    !.end_dates = <<0, Days(DaysPerMonth)>>]),
      ConfigFile([BaseConfig EXCEPT !.end_url_distribution = "TIME",
                                    !.end_dates = <<0, Days(DaysPerMonth)>>,
                                    !.end_times = << <<2>>, <<2>> >>]),
      ConfigFile([BaseConfig EXCEPT !.useTimeCalculation = TRUE,
                                    !.end_url_distribution = "MIXED",
                                    !.end_SurveysPerDay = 2,
                                    !.end_url_count = 2]),
      ConfigFile([BaseConfig EXCEPT !.useTimeCalculation = TRUE,
                                    !.end_url_distribution = "MIXED",
                                    !.end_SurveysPerDay = 2]) }

InitLinks ==
    /\ config \in LinkFiles
    /\ now = 0
    /\ phase = "load"
    /\ scheduler = EmptyScheduler
    /\ store = <<>>
    /\ conversation = [ c \in Chats |-> "END" ]
    /\ handler = Idle
    /\ callback = Idle
    /\ executed = [ id \in JobIds |-> 0 ]
    /\ crashes = 0
    /\ recoveries = 0
    /\ emergency = NoEmergency
    /\ reminders = 0
    /\ failures = 0
    /\ generated = NoCall
    /\ offsets = <<>>

NextLinks ==
    \/ LoadConfig
    \/ ScheduleNotifications
    \/ UpdaterStartPolling
    \/ SchedulerStart
    \/ \E c \in Chats : Subscribe(c)
    \/ \E c \in Chats, w \in WakeupTimes : SubscribeWakeupTime(c, w)
    \/ EnrollInsertEnd
    \/ EnrollJobsDaily
    \/ EnrollJobsEnd

SpecLinks == InitLinks /\ [][NextLinks]_vars

\* C34: under a configuration the validator accepted, the end link index of each END
\* row is at least 0 and less than the number of end links of the row's condition,
\* so that the link of the row exists when it is sent.
C34_IndexWithinEndLinks ==
    \A i \in DOMAIN store :
        store[i].type = END =>
            /\ 0 <= store[i].end_index
            /\ store[i].end_index < Len(config.end_url[store[i].condition + 1])

\* ------------------------------------------------- future rows and their jobs

\* C35: with main() through its start and neither a handler nor a callback at work,
\* every row whose minute is still ahead of the clock by more than the time shift
\* (so that its job cannot have run yet) has a live job with the id of its date
\* string and type, also after the process was started again.  The rows of the end
\* survey reminder, which are served by a job of another kind, are left aside by
\* taking the configurations without the reminder.
C35_FutureRowsHaveJobs ==
    (handler = Idle /\ callback = Idle /\ phase = "started"
                    /\ ~config.endSurveyReminderEnabled) =>
        \A i \in DOMAIN store :
            now < Parse(store[i].date) - JitterOf(store[i].type)
               => get_job(scheduler, JobId(Parse(store[i].date), store[i].type))

\* --------------------------------------------- rows of the end survey reminder

\* the date strings of the END datetimes an enrollment by the calendar generates
EndDateStrs ==
    { Format(d) : d \in Range(generate_date_time_list(config.end_dates, config.end_times, 0)) }

\* C36: with the end survey reminder on (calendar scheduling), an END broadcast job
\* is registered only for a datetime that the enrollment generated, never for the
\* date of a reminder row, and no END broadcast has run for another date.
C36_NoBroadcastForReminderRows ==
    (config.endSurveyReminderEnabled /\ ~config.useTimeCalculation) =>
        /\ \A job \in LiveJobSet(scheduler) :
             (job.func = SEND_BROADCAST /\ job.survey_type = END)
                => job.date_str \in EndDateStrs
        /\ \A d \in DateStrs \ EndDateStrs : executed[<<d, END>>] = 0

\* ------------------------------------------------ the subscribe conversation

\* the combinations of useTimeZoneCalculation, useTimeCalculation and
\* participantsEnterCondition, two conditions; useDayCalculation stays off
ConversationConfigs ==
    { [BaseConfig EXCEPT !.useTimeZoneCalculation = zone,
                         !.useTimeCalculation = wakeup,
                         !.participantsEnterCondition = enter,
                         !.start_url_count = 2] :
        zone \in BOOLEAN, wakeup \in BOOLEAN, enter \in BOOLEAN }

InitConversation ==
    /\ config \in ConversationConfigs
    /\ now = 0
    /\ phase = "init"
    /\ scheduler = EmptyScheduler
    /\ store = <<>>
    /\ conversation = [ c \in Chats |-> "END" ]
    /\ handler = Idle
    /\ callback = Idle
    /\ executed = [ id \in JobIds |-> 0 ]
    /\ crashes = 0
    /\ recoveries = 0
    /\ emergency = NoEmergency
    /\ reminders = 0
    /\ failures = 0
    /\ generated = NoCall
    /\ offsets = <<>>

NextConversation ==
    \/ ScheduleNotifications
    \/ UpdaterStartPolling
    \/ SchedulerStart
    \/ \E c \in Chats : Subscribe(c)
    \/ \E c \in Chats, d \in ParticipantDatetimes : SubscribeTimezone(c, d)
    \/ \E c \in Chats, w \in WakeupTimes : SubscribeWakeupTime(c, w)
    \/ EnrollInsertEnd
    \/ EnrollJobsDaily
    \/ EnrollJobsEnd
    \/ \E c \in Chats, condition \in Conditions : SubscribeCondition(c, condition)
    \/ Error

SpecConversation == InitConversation /\ [][NextConversation]_vars

\* the chat has a DAILY and an END row, and its rows are of this condition
EnrolledWith(T, chat_id, condition) ==
    /\ \E i \in DOMAIN T : T[i].chat_id = chat_id /\ T[i].type = DAILY
    /\ \E i \in DOMAIN T : T[i].chat_id = chat_id /\ T[i].type = END
    /\ \A i \in DOMAIN T : T[i].chat_id = chat_id => T[i].condition = condition

\* the prompts a conversation has before it at most
PromptsAhead(state) ==
    IF state = "TIMEZONE_STATE" THEN 3
    ELSE IF state = "TIME_STATE" THEN 2
    ELSE IF state = "CONDITION_STATE" THEN 1
    ELSE 0

\* the handler of a valid answer has returned for this chat
AnswerHandled(c) ==
    \/ \E d \in ParticipantDatetimes : SubscribeTimezone(c, d)
    \/ EnrollJobsEnd /\ handler.chat_id = c
    \/ \E condition \in Conditions : SubscribeCondition(c, condition)

\* C37: under each combination of the flags a conversation comes to its end in
\* finitely many steps: no handler of a valid answer raises, and each handled answer
\* leaves fewer prompts ahead.  When a handler ends the conversation, which it does
\* together with the subscribe message, the chat's DAILY and END rows are in the table
\* with the condition of that message (the one entered, where it is entered).
C37_ConversationEndsWithRows ==
    [][ \A c \in Chats :
          /\ handler'.pc # "error"
          /\ AnswerHandled(c) =>
                PromptsAhead(conversation'[c]) < PromptsAhead(conversation[c])
          /\ (conversation[c] # "END" /\ conversation'[c] = "END") =>
                /\ \E condition \in Conditions : EnrolledWith(store', c, condition)
                /\ \A condition \in Conditions :
                      SubscribeCondition(c, condition) => EnrolledWith(store', c, condition)
                /\ EnrollJobsEnd => EnrolledWith(store', c, handler.condition) ]_vars

\* ------------------------------------------------------------------ withdrawal

WindowConfigs ==
    { [c EXCEPT !.subscription_start_date = Parse(1),
                !.subscription_deadline = Parse(2)] :
        c \in {BaseConfig, [BaseConfig EXCEPT !.useTimeCalculation = TRUE]} }

InitWindow ==
    /\ config \in WindowConfigs
    /\ now = 0
    /\ phase = "init"
    /\ scheduler = EmptyScheduler
    /\ store = <<>>
    /\ conversation = [ c \in Chats |-> "END" ]
    /\ handler = Idle
    /\ callback = Idle
    /\ executed = [ id \in JobIds |-> 0 ]
    /\ crashes = 0
    /\ recoveries = 0
    /\ emergency = NoEmergency
    /\ reminders = 0
    /\ failures = 0
    /\ generated = NoCall
    /\ offsets = <<>>

NextWindow ==
    \/ ScheduleNotifications
    \/ UpdaterStartPolling
    \/ SchedulerStart
    \/ \E c \in Chats : Subscribe(c)
    \/ \E c \in Chats, w \in WakeupTimes : SubscribeWakeupTime(c, w)
    \/ EnrollInsertEnd
    \/ EnrollJobsDaily
    \/ EnrollJobsEnd
    \/ \E c \in Chats : Unsubscribe(c)
    \/ \E job \in scheduler.jobs, blocked \in SUBSET Chats : Fire(job, blocked)
    \/ BroadcastReturn
    \/ Tick

SpecWindow == InitWindow /\ [][NextWindow]_vars

\* /subscribe arrives within the subscription window from a chat without a row
RequestAccepted(c) ==
    /\ config.subscription_start_date <= now
    /\ now <= config.subscription_deadline
    /\ RowsOf(store, c) = <<>>

============================================================================
